---- MODULE Spec2Model ----
(***************************************************************************)
(* Optimistic paginated cache of the social client: the comments and      *)
(* replies infinite queries of one post, the optimistic mutations on them *)
(* (PostsListing.jsx), the like reconciliation (PostCard.jsx /            *)
(* PostsListing.jsx), the follow toggles (searchUser.jsx, profile page)   *)
(* and the notifications page with its mark-as-read mutations             *)
(* (Notifications.jsx).                                                    *)
(*                                                                         *)
(* JavaScript values are modelled as follows.                              *)
(*   - numbers that may be null / undefined / NaN are tagged records:     *)
(*     Num(n), Null, Undef, NaN;                                           *)
(*   - ids and texts are strings, "" standing for every falsy value       *)
(*     (undefined, null, "");                                              *)
(*   - objects are records (functions on field names); a missing field    *)
(*     is a name outside the DOMAIN; {...a, ...b} is b @@ a;              *)
(*   - arrays are sequences;                                               *)
(*   - texts that are searched with includes() are sequences of           *)
(*     one-character strings.                                              *)
(***************************************************************************)
EXTENDS Integers, Sequences, FiniteSets, TLC

\* ---------------------------------------------------------------- bounds
MaxPageLen == 2      \* records in one page answered by the server
MaxPages == 2        \* pages cached for one query
MaxTotal == 2        \* largest total the server reports
MaxMutations == 2    \* mutations started in one behaviour
MaxFetches == 2      \* page fetches answered in one behaviour
MaxLikeCount == 5    \* largest like count drawn
MaxToggles == 2      \* follow toggles started in one behaviour
MaxShareCount == 3   \* largest share count drawn
MaxReplyLikes == 2    \* largest like count of a reply drawn
MaxNotifications == 2    \* notifications in one answered list
MaxNotifMutations == 1   \* mark-as-read mutations started in one behaviour
MaxNotifFetches == 1     \* notification queries answered in one behaviour
MaxPostLikes == 1        \* like toggles of the post card in one behaviour
MaxPostRequests == 3     \* requests one post card sends in one behaviour

\* ------------------------------------------------------ program constants
COMMENTS_PAGE_LIMIT == 10
REPLIES_PAGE_LIMIT == 10

\* ------------------------------------------------------------- JS values
Undef == [t |-> "undefined"]
Null == [t |-> "null"]
NaN == [t |-> "nan"]
Num(n) == [t |-> "num", v |-> n]
\* a boolean / a string (its characters) where a value of any type may stand
Bool(b) == [t |-> "bool", v |-> b]
Str(chars) == [t |-> "str", v |-> chars]

\* Number(value) for value in Num / Null / Undef / NaN
JSNumber(value) ==
  CASE value.t = "num" -> value
    [] value.t = "null" -> Num(0)
    [] OTHER -> NaN

\* Number.isFinite(value): true only for an actual number
IsFinite(value) == value.t = "num"

\* a ?? b
Coalesce(a, b) == IF a.t \in {"null", "undefined"} THEN b ELSE a

\* obj?.[name] for a field holding a tagged number
NumField(obj, name) == IF name \in DOMAIN obj THEN obj[name] ELSE Undef

\* obj?.[name] for a field holding a value of any type
Field(obj, name) == IF name \in DOMAIN obj THEN obj[name] ELSE Undef

\* obj?.[name] for a field holding a string ("" when missing)
StrField(obj, name) == IF name \in DOMAIN obj THEN obj[name] ELSE ""

\* obj?.[name] for a field holding a boolean (undefined is falsy)
BoolField(obj, name) == IF name \in DOMAIN obj THEN obj[name] ELSE FALSE

EmptyObject == <<>>

Max(a, b) == IF a >= b THEN a ELSE b

\* ------------------------------------------------------------- entities
getEntityId(entity) ==
  IF StrField(entity, "_id") # "" THEN StrField(entity, "_id")
  ELSE StrField(entity, "id")

getNumericCount(value) ==
  IF IsFinite(JSNumber(value)) THEN JSNumber(value).v ELSE 0

\* createOptimisticEntity; the id `temp-<type>-<time>-<random>` is fresh,
\* modelled by the sequence number n.  createdAt and the creator object
\* are display-only and left out.
OptimisticId(entityType, n) == ("temp-" \o entityType) \o ("-" \o ToString(n))

createOptimisticEntity(content, entityType, n) ==
  IF entityType = "reply"
    THEN [_id |-> OptimisticId(entityType, n), id |-> OptimisticId(entityType, n),
          content |-> content, likesCount |-> Num(0),
          isLiked |-> FALSE, likedByMe |-> FALSE, isOptimistic |-> TRUE]
    ELSE [_id |-> OptimisticId(entityType, n), id |-> OptimisticId(entityType, n),
          content |-> content, likesCount |-> Num(0), repliesCount |-> Num(0),
          isLiked |-> FALSE, likedByMe |-> FALSE, isOptimistic |-> TRUE]

\* --------------------------------------------- infinite-query data helpers
\* oldData?.pages is an array
HasPages(oldData) == oldData # Undef /\ "pages" \in DOMAIN oldData

\* Array.isArray(page?.[listKey])
HasList(page, listKey) == listKey \in DOMAIN page

\* {...obj, [name]: value}
With(obj, name, value) == (name :> value) @@ obj

MapSeq(s, F(_)) == [i \in 1..Len(s) |-> F(s[i])]

FilterSeq(s, Keep(_)) == SelectSeq(s, Keep)

\* pages.slice(1)
Slice1(pages) == IF Len(pages) = 0 THEN <<>> ELSE Tail(pages)

\* a prepend that pushes the record to the end of the first page
prependEntity_appends(oldData, listKey, entity) ==
  IF ~HasPages(oldData)
    THEN [pages |-> << (listKey :> <<entity>>) @@
                       [page |-> Num(1), totalPages |-> Num(1), totalCount |-> Num(1)] >>,
          pageParams |-> <<1>>]
    ELSE LET firstPage == IF Len(oldData.pages) > 0 THEN oldData.pages[1] ELSE EmptyObject
             currentList == IF HasList(firstPage, listKey) THEN firstPage[listKey] ELSE <<>>
             currentTotalCount == JSNumber(NumField(firstPage, "totalCount"))
             nextTotalCount == IF IsFinite(currentTotalCount)
                                 THEN Num(currentTotalCount.v + 1)
                                 ELSE NumField(firstPage, "totalCount")
         IN [oldData EXCEPT !.pages =
               << With(With(firstPage, listKey, currentList \o <<entity>>),
                       "totalCount", nextTotalCount) >>
               \o Slice1(oldData.pages)]

\* a prepend that puts the record at the head of the last page
prependEntity_lastPage(oldData, listKey, entity) ==
  IF ~HasPages(oldData) \/ Len(oldData.pages) = 0
    THEN [pages |-> << (listKey :> <<entity>>) @@
                       [page |-> Num(1), totalPages |-> Num(1), totalCount |-> Num(1)] >>,
          pageParams |-> <<1>>]
    ELSE LET n == Len(oldData.pages)
             lastPage == oldData.pages[n]
             currentList == IF HasList(lastPage, listKey) THEN lastPage[listKey] ELSE <<>>
         IN [oldData EXCEPT !.pages[n] = With(lastPage, listKey, <<entity>> \o currentList)]

prependEntityToInfiniteQueryData(oldData, listKey, entity) ==
  IF ~HasPages(oldData)
    THEN [pages |-> << (listKey :> <<entity>>) @@
                       [page |-> Num(1), totalPages |-> Num(1), totalCount |-> Num(1)] >>,
          pageParams |-> <<1>>]
    ELSE LET firstPage == IF Len(oldData.pages) > 0 THEN oldData.pages[1] ELSE EmptyObject
             currentList == IF HasList(firstPage, listKey) THEN firstPage[listKey] ELSE <<>>
             currentTotalCount == JSNumber(NumField(firstPage, "totalCount"))
             nextTotalCount == IF IsFinite(currentTotalCount)
                                 THEN Num(currentTotalCount.v + 1)
                                 ELSE NumField(firstPage, "totalCount")
         IN [oldData EXCEPT !.pages =
               << With(With(firstPage, listKey, <<entity>> \o currentList),
                       "totalCount", nextTotalCount) >>
               \o Slice1(oldData.pages)]

\* a replace that looks at the first page only
replaceEntity_firstPageOnly(oldData, listKey, targetId, nextEntity) ==
  IF ~HasPages(oldData) \/ targetId = "" \/ Len(oldData.pages) = 0 THEN oldData
  ELSE LET ReplaceItem(item) == IF getEntityId(item) # targetId THEN item ELSE nextEntity
           ReplacePage(page) ==
             IF ~HasList(page, listKey) THEN page
             ELSE [page EXCEPT ![listKey] = MapSeq(page[listKey], ReplaceItem)]
       IN [oldData EXCEPT !.pages = <<ReplacePage(oldData.pages[1])>> \o Tail(oldData.pages)]

replaceEntityInInfiniteQueryData(oldData, listKey, targetId, nextEntity) ==
  IF ~HasPages(oldData) \/ targetId = "" THEN oldData
  ELSE LET ReplaceItem(item) == IF getEntityId(item) # targetId THEN item ELSE nextEntity
           ReplacePage(page) ==
             IF ~HasList(page, listKey) THEN page
             ELSE [page EXCEPT ![listKey] = MapSeq(page[listKey], ReplaceItem)]
       IN [oldData EXCEPT !.pages = MapSeq(oldData.pages, ReplacePage)]

\* a patch that puts the partial fields in place of the record
patchEntity_overwrites(oldData, listKey, targetId, patch) ==
  IF ~HasPages(oldData) \/ targetId = "" THEN oldData
  ELSE LET PatchItem(item) == IF getEntityId(item) # targetId THEN item ELSE patch
           PatchPage(page) ==
             IF ~HasList(page, listKey) THEN page
             ELSE [page EXCEPT ![listKey] = MapSeq(page[listKey], PatchItem)]
       IN [oldData EXCEPT !.pages = MapSeq(oldData.pages, PatchPage)]

patchEntityInInfiniteQueryData(oldData, listKey, targetId, patch) ==
  IF ~HasPages(oldData) \/ targetId = "" THEN oldData
  ELSE LET PatchItem(item) == IF getEntityId(item) # targetId THEN item ELSE patch @@ item
           PatchPage(page) ==
             IF ~HasList(page, listKey) THEN page
             ELSE [page EXCEPT ![listKey] = MapSeq(page[listKey], PatchItem)]
       IN [oldData EXCEPT !.pages = MapSeq(oldData.pages, PatchPage)]

\* removedCount of removeEntityFromInfiniteQueryData: records dropped on all pages
RECURSIVE removedCountOf(_, _, _)
removedCountOf(pages, listKey, targetId) ==
  IF Len(pages) = 0 THEN 0
  ELSE LET page == Head(pages)
           here == IF ~HasList(page, listKey) THEN 0
                   ELSE Len(page[listKey])
                        - Len(FilterSeq(page[listKey], LAMBDA item: getEntityId(item) # targetId))
       IN here + removedCountOf(Tail(pages), listKey, targetId)

\* a remove without the floor at zero
removeEntity_noFloor(oldData, listKey, targetId) ==
  IF ~HasPages(oldData) \/ targetId = "" THEN oldData
  ELSE LET RemovePage(page) ==
             IF ~HasList(page, listKey) THEN page
             ELSE [page EXCEPT ![listKey] =
                     FilterSeq(page[listKey], LAMBDA item: getEntityId(item) # targetId)]
           nextPages == MapSeq(oldData.pages, RemovePage)
           removedCount == removedCountOf(oldData.pages, listKey, targetId)
       IN IF removedCount = 0 THEN oldData
          ELSE LET currentTotalCount ==
                     IF Len(nextPages) > 0
                       THEN JSNumber(NumField(nextPages[1], "totalCount")) ELSE NaN
               IN IF Len(nextPages) > 0 /\ IsFinite(currentTotalCount)
                    THEN [oldData EXCEPT !.pages =
                            << With(nextPages[1], "totalCount",
                                    Num(currentTotalCount.v - removedCount)) >>
                            \o Tail(nextPages)]
                    ELSE [oldData EXCEPT !.pages = nextPages]

removeEntityFromInfiniteQueryData(oldData, listKey, targetId) ==
  IF ~HasPages(oldData) \/ targetId = "" THEN oldData
  ELSE LET RemovePage(page) ==
             IF ~HasList(page, listKey) THEN page
             ELSE [page EXCEPT ![listKey] =
                     FilterSeq(page[listKey], LAMBDA item: getEntityId(item) # targetId)]
           nextPages == MapSeq(oldData.pages, RemovePage)
           removedCount == removedCountOf(oldData.pages, listKey, targetId)
       IN IF removedCount = 0 THEN oldData
          ELSE LET currentTotalCount ==
                     IF Len(nextPages) > 0
                       THEN JSNumber(NumField(nextPages[1], "totalCount")) ELSE NaN
               IN IF Len(nextPages) > 0 /\ IsFinite(currentTotalCount)
                    THEN [oldData EXCEPT !.pages =
                            << With(nextPages[1], "totalCount",
                                    Num(Max(0, currentTotalCount.v - removedCount))) >>
                            \o Tail(nextPages)]
                    ELSE [oldData EXCEPT !.pages = nextPages]

\* a count update that reaches every comment of the list
updateReplyCount_everyComment(oldData, commentId, delta) ==
  IF ~HasPages(oldData) \/ commentId = "" THEN oldData
  ELSE LET Bump(comment) ==
             With(comment, "repliesCount",
                  Num(Max(0, getNumericCount(NumField(comment, "repliesCount")) + delta)))
           BumpPage(page) ==
             IF ~HasList(page, "comments") THEN page
             ELSE [page EXCEPT !.comments = MapSeq(page.comments, Bump)]
       IN [oldData EXCEPT !.pages = MapSeq(oldData.pages, BumpPage)]

updateCommentReplyCountInInfiniteQueryData(oldData, commentId, delta) ==
  IF ~HasPages(oldData) \/ commentId = "" THEN oldData
  ELSE LET Bump(comment) ==
             IF getEntityId(comment) # commentId THEN comment
             ELSE With(comment, "repliesCount",
                       Num(Max(0, getNumericCount(NumField(comment, "repliesCount")) + delta)))
           BumpPage(page) ==
             IF ~HasList(page, "comments") THEN page
             ELSE [page EXCEPT !.comments = MapSeq(page.comments, Bump)]
       IN [oldData EXCEPT !.pages = MapSeq(oldData.pages, BumpPage)]

\* extractCreatedEntityFromResponse.  In the modelled response bodies the
\* fields named by `keys` hold objects whenever they are present, and
\* `data` holds an object, so the typeof / Array.isArray tests reduce to
\* presence tests.  Null when nothing is found.
IsCandidate(obj) ==
  getEntityId(obj) # "" \/ StrField(obj, "content") # "" \/ StrField(obj, "body") # ""

RECURSIVE firstCandidate(_, _)
firstCandidate(container, keys) ==
  IF Len(keys) = 0 THEN Null
  ELSE IF Head(keys) \in DOMAIN container /\ IsCandidate(container[Head(keys)])
         THEN container[Head(keys)]
         ELSE firstCandidate(container, Tail(keys))

extractFromContainer(container, keys) ==
  IF firstCandidate(container, keys) # Null THEN firstCandidate(container, keys)
  ELSE IF IsCandidate(container) THEN container
  ELSE Null

extractCreatedEntityFromResponse(responseData, entityType) ==
  LET keys == IF entityType = "reply"
                THEN <<"reply", "createdReply", "newReply", "data">>
                ELSE <<"comment", "createdComment", "newComment", "data">>
      inner == IF "data" \in DOMAIN responseData
                 THEN extractFromContainer(responseData.data, keys) ELSE Null
  IN IF inner # Null THEN inner ELSE extractFromContainer(responseData, keys)

\* a merge that only spreads the two records
mergeOptimistic_spreadOnly(optimisticEntity, serverEntity) ==
  [isOptimistic |-> FALSE] @@ serverEntity @@ optimisticEntity

mergeOptimisticWithServerEntity(optimisticEntity, serverEntity) ==
  LET sid == StrField(serverEntity, "_id")
      sid2 == StrField(serverEntity, "id")
      liked == BoolField(serverEntity, "isLiked") \/ BoolField(serverEntity, "likedByMe")
      likes == IF getNumericCount(NumField(serverEntity, "likesCount")) # 0
                 THEN getNumericCount(NumField(serverEntity, "likesCount"))
                 ELSE getNumericCount(NumField(serverEntity, "likes"))
  IN [_id |-> IF sid # "" THEN sid ELSE IF sid2 # "" THEN sid2
                                   ELSE StrField(optimisticEntity, "_id"),
      id |-> IF sid2 # "" THEN sid2 ELSE IF sid # "" THEN sid
                                   ELSE StrField(optimisticEntity, "id"),
      isOptimistic |-> FALSE,
      isLiked |-> liked,
      likedByMe |-> liked,
      likesCount |-> Num(likes)] @@ serverEntity @@ optimisticEntity

\* extractApiMessage: first truthy of response.data.message,
\* response.data.error, response.data.errors[0].msg, message, fallback
ErrorData(error) ==
  IF "response" \in DOMAIN error /\ "data" \in DOMAIN error.response
    THEN error.response.data ELSE EmptyObject

FirstValidationMsg(data) ==
  IF "errors" \in DOMAIN data /\ Len(data.errors) > 0
    THEN StrField(data.errors[1], "msg") ELSE ""

\* a derivation that prefers the transport error's message
extractApiMessage_transportFirst(error, fallbackMessage) ==
  IF StrField(error, "message") # "" THEN StrField(error, "message")
  ELSE IF StrField(ErrorData(error), "message") # "" THEN StrField(ErrorData(error), "message")
  ELSE IF StrField(ErrorData(error), "error") # "" THEN StrField(ErrorData(error), "error")
  ELSE IF FirstValidationMsg(ErrorData(error)) # "" THEN FirstValidationMsg(ErrorData(error))
  ELSE fallbackMessage

extractApiMessage(error, fallbackMessage) ==
  IF StrField(ErrorData(error), "message") # "" THEN StrField(ErrorData(error), "message")
  ELSE IF StrField(ErrorData(error), "error") # "" THEN StrField(ErrorData(error), "error")
  ELSE IF FirstValidationMsg(ErrorData(error)) # "" THEN FirstValidationMsg(ErrorData(error))
  ELSE IF StrField(error, "message") # "" THEN StrField(error, "message")
  ELSE fallbackMessage

\* ------------------------------------------------------ texts and includes
UpperCase == <<"A", "B", "C", "D", "E", "F", "G", "H", "I", "J", "K", "L", "M",
               "N", "O", "P", "Q", "R", "S", "T", "U", "V", "W", "X", "Y", "Z">>
LowerCase == <<"a", "b", "c", "d", "e", "f", "g", "h", "i", "j", "k", "l", "m",
               "n", "o", "p", "q", "r", "s", "t", "u", "v", "w", "x", "y", "z">>

\* String.prototype.toLowerCase, one character
LowerChar(ch) ==
  IF \E k \in 1..Len(UpperCase) : UpperCase[k] = ch
    THEN LowerCase[CHOOSE k \in 1..Len(UpperCase) : UpperCase[k] = ch]
    ELSE ch

toLowerCase(text) == [k \in 1..Len(text) |-> LowerChar(text[k])]

\* String.prototype.includes
includes(text, part) ==
  \E k \in 0..(Len(text) - Len(part)) : SubSeq(text, k + 1, k + Len(part)) = part

\* String.prototype.trim
RECURSIVE trimStart(_)
trimStart(text) ==
  IF Len(text) > 0 /\ Head(text) = " " THEN trimStart(Tail(text)) ELSE text

RECURSIVE trimEnd(_)
trimEnd(text) ==
  IF Len(text) > 0 /\ text[Len(text)] = " "
    THEN trimEnd(SubSeq(text, 1, Len(text) - 1)) ELSE text

trim(text) == trimEnd(trimStart(text))

TrueTokens == {<<"t", "r", "u", "e">>, <<"y", "e", "s">>, <<"s", "a", "v", "e", "d">>, <<"b", "o", "o", "k", "m", "a", "r", "k", "e", "d">>, <<"1">>}
FalseTokens == {<<"f", "a", "l", "s", "e">>, <<"n", "o">>, <<"u", "n", "s", "a", "v", "e", "d">>, <<"u", "n", "b", "o", "o", "k", "m", "a", "r", "k", "e", "d">>, <<"0">>}

\* parseBooleanLike (PostCard.jsx): Bool(..) for a boolean, a finite number
\* or a recognized token, Null for everything else
parseBooleanLike(value) ==
  CASE value.t = "bool" -> value
    [] value.t = "num" -> Bool(value.v > 0)
    [] value.t = "str" ->
         LET normalized == toLowerCase(trim(value.v))
         IN IF normalized = <<>> THEN Null
            ELSE IF normalized \in TrueTokens THEN Bool(TRUE)
            ELSE IF normalized \in FalseTokens THEN Bool(FALSE)
            ELSE Null
    [] OTHER -> Null

\* for (const value of candidates) { parsed = parseBooleanLike(value);
\* if (parsed !== null) return parsed }: Null when the loop falls through
RECURSIVE FirstParsed(_)
FirstParsed(values) ==
  IF Len(values) = 0 THEN Null
  ELSE IF parseBooleanLike(Head(values)) # Null THEN parseBooleanLike(Head(values))
  ELSE FirstParsed(Tail(values))

\* String(responseData?.message || "")
MessageOf(responseData) ==
  IF "message" \in DOMAIN responseData THEN responseData.message ELSE <<>>

\* obj?.data?.[name] / obj?.[name] for a count; Undef when missing
DataOf(responseData) ==
  IF "data" \in DOMAIN responseData THEN responseData.data ELSE EmptyObject

\* Array.isArray(obj?.[name]) ? obj[name].length : null
ArrayLength(obj, name) == IF name \in DOMAIN obj THEN Num(Len(obj[name])) ELSE Null

\* a like reconciliation that looks for "like" before "unlike"
getLikeResult_likeFirst(responseData, currentLikeState, currentCount) ==
  LET message == toLowerCase(MessageOf(responseData))
      nextIsLiked ==
        IF includes(message, <<"l", "i", "k", "e">>) THEN TRUE
        ELSE IF includes(message, <<"u", "n", "l", "i", "k", "e">>) \/ includes(message, <<"r", "e", "m", "o", "v", "e", "d">>)
                  \/ includes(message, <<"d", "e", "l", "e", "t", "e">>)
          THEN FALSE ELSE ~currentLikeState
  IN [isLiked |-> nextIsLiked, count |-> Num(0)]

\* getLikeResultFromResponse (PostCard.jsx and PostsListing.jsx hold the
\* same function).  currentCount is a tagged number, the result count too.
getLikeResultFromResponse(responseData, currentLikeState, currentCount) ==
  LET message == toLowerCase(MessageOf(responseData))
      nextIsLiked ==
        IF includes(message, <<"u", "n", "l", "i", "k", "e">>) \/ includes(message, <<"r", "e", "m", "o", "v", "e", "d">>)
             \/ includes(message, <<"d", "e", "l", "e", "t", "e">>)
          THEN FALSE
          ELSE IF includes(message, <<"l", "i", "k", "e">>) THEN TRUE ELSE ~currentLikeState
      countFromApi ==
        Coalesce(NumField(DataOf(responseData), "likesCount"),
          Coalesce(NumField(responseData, "likesCount"),
            Coalesce(NumField(DataOf(responseData), "count"),
              Coalesce(ArrayLength(DataOf(responseData), "likes"),
                       ArrayLength(responseData, "likes")))))
      safeCurrentCount == IF IsFinite(currentCount) THEN currentCount.v ELSE 0
      computedCount ==
        IF nextIsLiked
          THEN safeCurrentCount + (IF currentLikeState THEN 0 ELSE 1)
          ELSE Max(0, safeCurrentCount - (IF currentLikeState THEN 1 ELSE 0))
  IN [isLiked |-> nextIsLiked,
      count |-> IF IsFinite(JSNumber(countFromApi))
                  THEN JSNumber(countFromApi) ELSE Num(computedCount)]

\* ---- bookmark reconciliation (PostCard.jsx)
BookmarkCandidates(responseData) ==
  <<Field(DataOf(responseData), "isBookmarked"), Field(responseData, "isBookmarked"),
    Field(DataOf(responseData), "bookmarked"), Field(responseData, "bookmarked"),
    Field(DataOf(responseData), "saved"), Field(responseData, "saved"),
    Field(DataOf(responseData), "isSaved"), Field(responseData, "isSaved")>>

\* a reconciliation in which the first field that is present decides, an
\* unrecognized value counting as false
getBookmarkResult_firstPresent(responseData, currentBookmarkState) ==
  LET present == SelectSeq(BookmarkCandidates(responseData), LAMBDA v : v # Undef)
  IN IF Len(present) > 0
       THEN parseBooleanLike(Head(present)) = Bool(TRUE)
       ELSE ~currentBookmarkState

getBookmarkResultFromResponse(responseData, currentBookmarkState) ==
  LET parsed == FirstParsed(BookmarkCandidates(responseData))
      message == toLowerCase(MessageOf(responseData))
  IN IF parsed # Null THEN parsed.v
     ELSE IF includes(message, <<"u", "n", "s", "a", "v", "e">>) \/ includes(message, <<"u", "n", " ", "s", "a", "v", "e">>)
               \/ includes(message, <<"u", "n", "b", "o", "o", "k", "m", "a", "r", "k">>)
               \/ includes(message, <<"r", "e", "m", "o", "v", "e", " ", "b", "o", "o", "k", "m", "a", "r", "k">>)
       THEN FALSE
     ELSE IF includes(message, <<"s", "a", "v", "e", "d">>) \/ includes(message, <<"s", "a", "v", "e">>)
               \/ includes(message, <<"b", "o", "o", "k", "m", "a", "r", "k", "e", "d">>)
               \/ includes(message, <<"b", "o", "o", "k", "m", "a", "r", "k">>)
       THEN TRUE
     ELSE ~currentBookmarkState

\* ---- share count (PostCard.jsx); currentCount and the result are tagged
\* numbers
ShareCountFromApi(responseData) ==
  Coalesce(Field(DataOf(responseData), "sharesCount"),
    Coalesce(Field(responseData, "sharesCount"),
      Coalesce(Field(DataOf(responseData), "count"),
        Coalesce(ArrayLength(DataOf(responseData), "shares"),
                 ArrayLength(responseData, "shares")))))

getShareCountFromResponse(responseData, currentCount) ==
  LET countFromApi == ShareCountFromApi(responseData)
      message == toLowerCase(MessageOf(responseData))
      safeCurrentCount == IF IsFinite(currentCount) THEN currentCount.v ELSE 0
  IN IF IsFinite(JSNumber(countFromApi)) THEN JSNumber(countFromApi)
     ELSE IF includes(message, <<"u", "n", "s", "h", "a", "r", "e">>) \/ includes(message, <<"r", "e", "m", "o", "v", "e">>)
       THEN Num(Max(0, safeCurrentCount - 1))
     ELSE Num(safeCurrentCount + 1)

\* ------------------------------------------------------------ the server
\* The remote API is a black box: it answers a page request with any list
\* of its records (pages may overlap, the offsets shift when records are
\* created), with or without pagination metadata.
ServerOrder == <<"c1", "c2">>
ServerIds == {"c1", "c2"}
ServerReplyOrder == <<"r1">>
\* the id the server gives to the record created by the n-th mutation
NewServerId(entityType, n) == ("new-" \o entityType) \o ("-" \o ToString(n))

\* the server leaves repliesCount out of the last comment of its order
ServerComment(id) ==
  IF id = ServerOrder[Len(ServerOrder)]
    THEN [_id |-> id, content |-> "old", likesCount |-> Num(0)]
    ELSE [_id |-> id, content |-> "old", likesCount |-> Num(0), repliesCount |-> Num(1)]

ServerReply(id) == [_id |-> id, content |-> "old", likesCount |-> Num(0)]

\* the server keeps its records in one order: a page is a selection
\* of at most n of them, in that order
RECURSIVE ListsOver(_, _)
ListsOver(ordered, n) ==
  IF n = 0 \/ Len(ordered) = 0 THEN {<<>>}
  ELSE ListsOver(Tail(ordered), n)
       \cup {<<Head(ordered)>> \o rest : rest \in ListsOver(Tail(ordered), n - 1)}

PaginationInfos(len) ==
  {Null} \cup {[numberOfPages |-> Num(MaxPages), total |-> Num(n)] :
                 n \in {Max(len, MaxTotal)}}

\* res.data of GET /posts/:id/comments
CommentsResponses ==
  UNION {{[comments |-> MapSeq(l, ServerComment), paginationInfo |-> info] :
            info \in PaginationInfos(Len(l))} : l \in ListsOver(ServerOrder, MaxPageLen)}

RepliesResponses ==
  UNION {{[replies |-> MapSeq(l, ServerReply), paginationInfo |-> info] :
            info \in PaginationInfos(Len(l))} : l \in ListsOver(ServerReplyOrder, MaxPageLen)}

\* paginationInfo?.name
InfoField(info, name) == IF info = Null THEN Undef ELSE NumField(info, name)

fetchCommentsByPostId(res, page) ==
  [comments |-> res.comments,
   page |-> Num(page),
   totalPages |-> Coalesce(InfoField(res.paginationInfo, "numberOfPages"),
                   Coalesce(InfoField(res.paginationInfo, "pages"), Null)),
   totalCount |-> Coalesce(InfoField(res.paginationInfo, "total"),
                   Coalesce(InfoField(res.paginationInfo, "count"), Null))]

fetchRepliesByCommentId(res, page) ==
  [replies |-> res.replies,
   page |-> Num(page),
   totalPages |-> Coalesce(InfoField(res.paginationInfo, "numberOfPages"),
                   Coalesce(InfoField(res.paginationInfo, "pages"), Null)),
   totalCount |-> Coalesce(InfoField(res.paginationInfo, "total"),
                   Coalesce(InfoField(res.paginationInfo, "count"), Null))]

\* a next-page decision that takes every full-or-longer page as a sign of more
getNextPageParam_atLeastLimit(lastPage, listKey, limit) ==
  IF NumField(lastPage, "totalPages").t = "num"
    THEN IF lastPage.page.v < lastPage.totalPages.v THEN lastPage.page.v + 1 ELSE 0
    ELSE IF HasList(lastPage, listKey) /\ Len(lastPage[listKey]) >= limit
           THEN lastPage.page.v + 1 ELSE 0

\* a decision that, without a total-page count, asks only whether the last
\* page holds any record
getNextPageParam_nonEmpty(lastPage, listKey, limit) ==
  IF NumField(lastPage, "totalPages").t = "num"
    THEN IF lastPage.page.v < lastPage.totalPages.v THEN lastPage.page.v + 1 ELSE 0
    ELSE IF HasList(lastPage, listKey) /\ Len(lastPage[listKey]) > 0
           THEN lastPage.page.v + 1 ELSE 0

\* getNextPageParam of the comments / replies infinite query; 0 stands for
\* undefined (no next page)
getNextPageParam(lastPage, listKey, limit) ==
  IF NumField(lastPage, "totalPages").t = "num"
    THEN IF lastPage.page.v < lastPage.totalPages.v THEN lastPage.page.v + 1 ELSE 0
    ELSE IF HasList(lastPage, listKey) /\ Len(lastPage[listKey]) = limit
           THEN lastPage.page.v + 1 ELSE 0

\* bodies answered to a create / update request
CreateResponses(entityType, content, n) ==
  LET newId == NewServerId(entityType, n)
  IN {[message |-> "success", data |-> (entityType :> [_id |-> newId, content |-> content])],
      [message |-> "success", data |-> [content |-> content]],
      [message |-> "success"]}

UpdateResponses(commentId, content) ==
  {[message |-> "success", data |-> [comment |-> [_id |-> commentId, content |-> content]]],
   [message |-> "success"]}

\* errors a failed request rejects with
ApiErrors ==
  {[response |-> [status |-> 500, data |-> [message |-> "Server error"]],
    message |-> "Request failed with status code 500"],
   [message |-> "Network Error"],
   EmptyObject}

\* bodies answered to a like toggle: a message, and at most one place
\* that carries a count
LikeMessages ==
  {<<"P", "o", "s", "t", " ", "u", "n", "l", "i", "k", "e", "d">>,
   <<"P", "o", "s", "t", " ", "l", "i", "k", "e", "d">>,
   <<"L", "i", "k", "e", " ", "r", "e", "m", "o", "v", "e", "d">>,
   <<"C", "o", "m", "m", "e", "n", "t", " ", "d", "e", "l", "e", "t", "e", "d">>,
   <<"s", "u", "c", "c", "e", "s", "s">>,
   <<>>}

LikesArray(n) == [k \in 1..n |-> "u"]

LikeCountShapes ==
  {EmptyObject}
  \cup {[data |-> [likesCount |-> Num(n)]] : n \in 0..MaxLikeCount}
  \cup {[likesCount |-> Num(n)] : n \in 0..MaxLikeCount}
  \cup {[data |-> [count |-> Num(n)]] : n \in 0..MaxLikeCount}
  \cup {[data |-> [likes |-> LikesArray(n)]] : n \in 0..MaxLikeCount}
  \cup {[likes |-> LikesArray(n)] : n \in 0..MaxLikeCount}

\* values an explicit liked-state flag of a response may hold
LikeSignals ==
  {Bool(TRUE), Bool(FALSE), Num(0), Num(1), Str(<<"t", "r", "u", "e">>), Str(<<"f", "a", "l", "s", "e">>)}

\* bodies that state the liked state in a field
LikeSignalShapes ==
  {[data |-> [isLiked |-> v]] : v \in LikeSignals}
  \cup {[isLiked |-> v] : v \in LikeSignals}
  \cup {[liked |-> v] : v \in LikeSignals}

LikeResponses ==
  {IF message = <<>> THEN shape ELSE [message |-> message] @@ shape :
     message \in LikeMessages, shape \in LikeCountShapes \cup LikeSignalShapes}

LikeInputs ==
  [responseData : LikeResponses,
   currentLikeState : BOOLEAN,
   currentCount : {Num(n) : n \in 0..MaxLikeCount} \cup {Undef}]

NoLikeResult == [t |-> "none"]

\* ------------------------------------------------------------ the state
VARIABLES
  likeInput,           \* arguments of one getLikeResultFromResponse call
  likeResult,          \* its result, NoLikeResult before the call
  searchUsers,             \* SearchUser: the normalized users of the list, by id
  searchFollowOverrides,   \* SearchUser: followOverrides
  followLoadingById,       \* SearchUser: ids with a follow request in flight
  searchFollowError,       \* SearchUser: followError
  profiles,                \* profile page: follow state of the loaded profiles, by id
  profileFollowOverrides,  \* profile page: followOverrides
  profileFollowError,      \* profile page: followError
  otherProfileId,          \* profile page: id of the profile on screen
  followMutations,         \* the follow toggles started so far
  call,                    \* one call of a pure helper: its name and arguments
  result,                  \* what the call returned, NoResult before it ran
  notifCache,              \* Notifications: query key -> cached data, Undef when none
  activeFilter,            \* Notifications: "all" or "unread"
  notifMutations,          \* Notifications: the mark-as-read mutations started so far
  notifFetches,            \* Notifications: queries answered so far
  postLikeState,           \* PostCard: postLikeState
  postLikeError,           \* PostCard: postLikeError
  postLikeMutation,        \* PostCard: the like mutation and its toggles so far
  postCard,                \* PostCard: menu, modals, errors and requests of one card
  cache,               \* query key -> infinite-query data, Undef when none
  mutations,           \* the mutations started so far, with context and status
  fetches,             \* page requests answered so far
  commentSubmitError,  \* CommentsSection state
  replySubmitError,    \* ReplyThread state, by comment id
  commentActionError   \* ReplyThread state, by comment id

cacheVars == <<cache, mutations, fetches, commentSubmitError, replySubmitError,
               commentActionError>>
likeVars == <<likeInput, likeResult>>
followVars == <<searchUsers, searchFollowOverrides, followLoadingById, searchFollowError,
                profiles, profileFollowOverrides, profileFollowError, otherProfileId,
                followMutations>>
callVars == <<call, result>>
postLikeVars == <<postLikeState, postLikeError, postLikeMutation, postCard>>
notifVars == <<notifCache, activeFilter, notifMutations, notifFetches, postLikeVars>>
vars == <<cacheVars, likeVars, followVars, callVars, notifVars>>

\* ------------------------------------------------------------ query keys
postCommentsQueryKey == <<"post-comments">>
commentRepliesQueryKey(commentId) == <<"comment-replies", commentId>>

\* every id a comment of the list can carry
CommentIds ==
  ServerIds \cup {NewServerId("comment", n) : n \in 1..MaxMutations}
            \cup {OptimisticId("comment", n) : n \in 1..MaxMutations}

QueryKeys == {postCommentsQueryKey} \cup {commentRepliesQueryKey(c) : c \in CommentIds}

\* queryClient.getQueryData
getQueryData(c, key) == c[key]

\* queryClient.setQueryData(key, data): setting undefined changes nothing
setQueryData(c, key, data) == IF data = Undef THEN c ELSE [c EXCEPT ![key] = data]

\* queryClient.removeQueries({ queryKey: key, exact: true })
removeQueries(c, key) == [c EXCEPT ![key] = Undef]

\* a rollback that forgets the query that had no data
restoreQuery_definedOnly(c, key, previous) == setQueryData(c, key, previous)

\* a rollback that leaves the query as the other mutations made it
restoreQuery_keepsCurrent(c, key, previous) == c

\* a rollback with the undefined test inverted
restoreQuery_inverted(c, key, previous) ==
  IF previous # Undef THEN removeQueries(c, key) ELSE setQueryData(c, key, previous)

\* the rollback branch shared by every onError handler, for one captured query
restoreQuery(c, key, previous) ==
  IF previous = Undef THEN removeQueries(c, key) ELSE setQueryData(c, key, previous)

\* (data?.pages || []).flatMap((page) => page?.[listKey] || [])
RECURSIVE flatItems(_, _)
flatItems(pages, listKey) ==
  IF Len(pages) = 0 THEN <<>>
  ELSE (IF HasList(Head(pages), listKey) THEN Head(pages)[listKey] ELSE <<>>)
       \o flatItems(Tail(pages), listKey)

allItems(data, listKey) == IF HasPages(data) THEN flatItems(data.pages, listKey) ELSE <<>>

allComments == allItems(cache[postCommentsQueryKey], "comments")

Range(s) == {s[i] : i \in 1..Len(s)}

\* comments that have a ReplyThread on screen
RenderedComments == {c \in Range(allComments) : getEntityId(c) # ""}

isPending(kind, commentId) ==
  \E i \in 1..Len(mutations) :
    /\ mutations[i].kind = kind
    /\ mutations[i].commentId = commentId
    /\ mutations[i].status = "pending"

Contents == {"new"}

\* ---------------------------------------------------------------- Init
InitCache ==
  /\ cache = [k \in QueryKeys |-> Undef]
  /\ mutations = <<>>
  /\ fetches = 0
  /\ commentSubmitError = ""
  /\ replySubmitError = [c \in CommentIds |-> ""]
  /\ commentActionError = [c \in CommentIds |-> ""]

\* no like toggle is looked at
LikeIdle ==
  /\ likeInput = [responseData |-> EmptyObject, currentLikeState |-> FALSE,
                  currentCount |-> Num(0)]
  /\ likeResult = NoLikeResult

\* ---------------------------------------------------------- follow state
UserIds == {"u1", "u2"}
FollowersCounts == {0, 10}

\* what normalizeUser / getIsFollowingProfile and getArrayCount make of a
\* user record: a boolean and a number
FollowStates == [isFollowing : BOOLEAN, followersCount : FollowersCounts]

NoOverride == [t |-> "undefined"]

\* a users list and a profile page are on screen, nothing toggled yet
FollowLoaded ==
  /\ searchUsers \in [UserIds -> FollowStates]
  /\ profiles = searchUsers
  /\ searchFollowOverrides = [u \in UserIds |-> NoOverride]
  /\ followLoadingById = {}
  /\ searchFollowError = ""
  /\ profileFollowOverrides = [u \in UserIds |-> NoOverride]
  /\ profileFollowError = ""
  /\ otherProfileId \in UserIds
  /\ followMutations = <<>>

\* no user list or profile is looked at
FollowIdle ==
  /\ searchUsers = [u \in UserIds |-> [isFollowing |-> FALSE, followersCount |-> 0]]
  /\ profiles = searchUsers
  /\ searchFollowOverrides = [u \in UserIds |-> NoOverride]
  /\ followLoadingById = {}
  /\ searchFollowError = ""
  /\ profileFollowOverrides = [u \in UserIds |-> NoOverride]
  /\ profileFollowError = ""
  /\ otherProfileId = "u1"
  /\ followMutations = <<>>

NoCall == [fn |-> "none"]
NoResult == [t |-> "none"]
\* the call returned v
Returned(v) == [value |-> v]

\* no helper call is looked at
CallIdle ==
  /\ call = NoCall
  /\ result = NoResult

\* ["notifications", token, onlyUnread] and ["notifications-unread-count",
\* token], for the one token of the session
notificationsQueryKey(onlyUnread) == <<"notifications", onlyUnread>>
unreadCountQueryKey == <<"notifications-unread-count">>
NotificationQueryKeys == {notificationsQueryKey(onlyUnread) : onlyUnread \in BOOLEAN}
NotifKeys == NotificationQueryKeys \cup {unreadCountQueryKey}

\* no notifications page and no post card is looked at
NotifIdle ==
  /\ notifCache = [key \in NotifKeys |-> Undef]
  /\ activeFilter = "all"
  /\ notifMutations = <<>>
  /\ notifFetches = 0
  /\ postLikeState = [isLiked |-> FALSE, count |-> Num(0)]
  /\ postLikeError = ""
  /\ postLikeMutation = [status |-> "idle", error |-> Null, started |-> 0,
                         responseStatus |-> 0]

\* ---- the post card: its mutations and what its handlers read and set
PostKinds == {"like", "bookmark", "share", "update", "delete"}

PostCardIdle ==
  postCard = [token |-> FALSE, postId |-> "", canManagePost |-> FALSE,
              isPostMenuOpen |-> FALSE, isDeleteModalOpen |-> FALSE,
              isShareModalOpen |-> FALSE, isEditingPost |-> FALSE,
              errors |-> [kind \in PostKinds |-> ""], alert |-> "",
              requests |-> <<>>, lastEvent |-> "none"]

Init == InitCache /\ LikeIdle /\ FollowIdle /\ CallIdle /\ NotifIdle /\ PostCardIdle

\* ------------------------------------------------------------- fetches
\* First load or refetch of the comments query (useInfiniteQuery): the
\* cached pages are replaced by freshly fetched ones, one page for every
\* cached page as long as getNextPageParam names a next page.
FetchComments ==
  /\ fetches < MaxFetches
  /\ \E res1 \in CommentsResponses :
       LET page1 == fetchCommentsByPostId(res1, 1)
           old == cache[postCommentsQueryKey]
           more == /\ HasPages(old) /\ Len(old.pages) > 1
                   /\ getNextPageParam(page1, "comments", COMMENTS_PAGE_LIMIT) # 0
                   /\ fetches + 1 < MaxFetches
       IN IF more
            THEN \E res2 \in CommentsResponses :
                   /\ cache' = [cache EXCEPT ![postCommentsQueryKey] =
                        [pages |-> <<page1, fetchCommentsByPostId(res2,
                                       getNextPageParam(page1, "comments", COMMENTS_PAGE_LIMIT))>>,
                         pageParams |-> <<1, getNextPageParam(page1, "comments",
                                                             COMMENTS_PAGE_LIMIT)>>]]
                   /\ fetches' = fetches + 2
            ELSE /\ cache' = [cache EXCEPT ![postCommentsQueryKey] =
                                [pages |-> <<page1>>, pageParams |-> <<1>>]]
                 /\ fetches' = fetches + 1
  /\ UNCHANGED <<likeVars, followVars, callVars, notifVars, mutations, commentSubmitError, replySubmitError, commentActionError>>

\* fetchNextPage of the comments query: appends the page getNextPageParam names
FetchNextComments ==
  /\ fetches < MaxFetches
  /\ HasPages(cache[postCommentsQueryKey])
  /\ LET old == cache[postCommentsQueryKey]
         lastPage == old.pages[Len(old.pages)]
         next == getNextPageParam(lastPage, "comments", COMMENTS_PAGE_LIMIT)
     IN /\ Len(old.pages) < MaxPages
        /\ next # 0
        /\ \E res \in CommentsResponses :
             cache' = [cache EXCEPT ![postCommentsQueryKey] =
                         [pages |-> Append(old.pages, fetchCommentsByPostId(res, next)),
                          pageParams |-> Append(old.pageParams, next)]]
  /\ fetches' = fetches + 1
  /\ UNCHANGED <<likeVars, followVars, callVars, notifVars, mutations, commentSubmitError, replySubmitError, commentActionError>>

\* First load or refetch of the replies query of a comment on screen
FetchReplies(commentId) ==
  /\ fetches < MaxFetches
  /\ \E res \in RepliesResponses :
       cache' = [cache EXCEPT ![commentRepliesQueryKey(commentId)] =
                   [pages |-> <<fetchRepliesByCommentId(res, 1)>>, pageParams |-> <<1>>]]
  /\ fetches' = fetches + 1
  /\ UNCHANGED <<likeVars, followVars, callVars, notifVars, mutations, commentSubmitError, replySubmitError, commentActionError>>

\* ------------------------------------------------- comment / reply mutations
\* A mutation record keeps what React Query keeps for it: the variables,
\* the context returned by onMutate and the status.  onMutate runs to its
\* end before any other event: cancelQueries settles within the same task.
\* Display-only state of the handlers (menus, edit mode, confirm dialog,
\* isRepliesOpen) is left out; invalidateQueries marks the query for the
\* refetch that FetchComments / FetchReplies model.  Two fields are kept for
\* the properties only: `started`, the cache when the mutation started, and
\* `data`, the response body of a successful call (EmptyObject before).
Settle(i, status, data) == [mutations EXCEPT ![i].status = status, ![i].data = data]

\* --- createCommentMutation (CommentsSection)
CreateCommentMutate(content) ==
  /\ Len(mutations) < MaxMutations
  /\ ~isPending("createComment", "")
  /\ LET optimisticComment == createOptimisticEntity(content, "comment", Len(mutations) + 1)
         previousComments == getQueryData(cache, postCommentsQueryKey)
     IN /\ cache' = setQueryData(cache, postCommentsQueryKey,
                      prependEntityToInfiniteQueryData(cache[postCommentsQueryKey],
                                                       "comments", optimisticComment))
        /\ mutations' = Append(mutations,
             [kind |-> "createComment", commentId |-> "", status |-> "pending", started |-> cache, data |-> EmptyObject,
              content |-> content,
              context |-> [optimisticCommentId |-> getEntityId(optimisticComment),
                           optimisticComment |-> optimisticComment,
                           previousComments |-> previousComments]])
  /\ commentSubmitError' = ""
  /\ UNCHANGED <<likeVars, followVars, callVars, notifVars, fetches, replySubmitError, commentActionError>>

CreateCommentSuccess(i) ==
  /\ mutations[i].kind = "createComment" /\ mutations[i].status = "pending"
  /\ \E responseData \in CreateResponses("comment", mutations[i].content, i) :
       LET context == mutations[i].context
           serverComment == extractCreatedEntityFromResponse(responseData, "comment")
       IN /\ mutations' = Settle(i, "success", responseData)
          /\ IF context.optimisticCommentId # "" /\ serverComment # Null
               THEN cache' = setQueryData(cache, postCommentsQueryKey,
                            replaceEntityInInfiniteQueryData(
                              cache[postCommentsQueryKey], "comments",
                              context.optimisticCommentId,
                              mergeOptimisticWithServerEntity(context.optimisticComment,
                                                              serverComment)))
               ELSE cache' = cache
  /\ UNCHANGED <<likeVars, followVars, callVars, notifVars, fetches, commentSubmitError, replySubmitError, commentActionError>>

CreateCommentError(i) ==
  /\ mutations[i].kind = "createComment" /\ mutations[i].status = "pending"
  /\ cache' = restoreQuery(cache, postCommentsQueryKey, mutations[i].context.previousComments)
  /\ \E submitError \in ApiErrors :
       commentSubmitError' = extractApiMessage(submitError, "Failed to create comment.")
  /\ mutations' = Settle(i, "error", EmptyObject)
  /\ UNCHANGED <<likeVars, followVars, callVars, notifVars, fetches, replySubmitError, commentActionError>>

\* --- createReplyMutation (ReplyThread of commentId)
CreateReplyMutate(commentId, content) ==
  /\ Len(mutations) < MaxMutations
  /\ ~isPending("createReply", commentId)
  /\ LET optimisticReply == createOptimisticEntity(content, "reply", Len(mutations) + 1)
         previousReplies == getQueryData(cache, commentRepliesQueryKey(commentId))
         previousComments == getQueryData(cache, postCommentsQueryKey)
         withReply == setQueryData(cache, commentRepliesQueryKey(commentId),
                        prependEntityToInfiniteQueryData(
                          cache[commentRepliesQueryKey(commentId)], "replies", optimisticReply))
     IN /\ cache' = setQueryData(withReply, postCommentsQueryKey,
                      updateCommentReplyCountInInfiniteQueryData(
                        withReply[postCommentsQueryKey], commentId, 1))
        /\ mutations' = Append(mutations,
             [kind |-> "createReply", commentId |-> commentId, status |-> "pending", started |-> cache, data |-> EmptyObject,
              content |-> content,
              context |-> [optimisticReplyId |-> getEntityId(optimisticReply),
                           optimisticReply |-> optimisticReply,
                           previousReplies |-> previousReplies,
                           previousComments |-> previousComments]])
  /\ replySubmitError' = [replySubmitError EXCEPT ![commentId] = ""]
  /\ UNCHANGED <<likeVars, followVars, callVars, notifVars, fetches, commentSubmitError, commentActionError>>

CreateReplySuccess(i) ==
  /\ mutations[i].kind = "createReply" /\ mutations[i].status = "pending"
  /\ \E responseData \in CreateResponses("reply", mutations[i].content, i) :
       LET context == mutations[i].context
           key == commentRepliesQueryKey(mutations[i].commentId)
           serverReply == extractCreatedEntityFromResponse(responseData, "reply")
       IN /\ mutations' = Settle(i, "success", responseData)
          /\ IF context.optimisticReplyId # "" /\ serverReply # Null
               THEN cache' = setQueryData(cache, key,
                            replaceEntityInInfiniteQueryData(
                              cache[key], "replies", context.optimisticReplyId,
                              mergeOptimisticWithServerEntity(context.optimisticReply,
                                                              serverReply)))
               ELSE cache' = cache
  /\ UNCHANGED <<likeVars, followVars, callVars, notifVars, fetches, commentSubmitError, replySubmitError, commentActionError>>

CreateReplyError(i) ==
  /\ mutations[i].kind = "createReply" /\ mutations[i].status = "pending"
  /\ cache' = restoreQuery(
                restoreQuery(cache, commentRepliesQueryKey(mutations[i].commentId),
                             mutations[i].context.previousReplies),
                postCommentsQueryKey, mutations[i].context.previousComments)
  /\ \E submitError \in ApiErrors :
       replySubmitError' = [replySubmitError EXCEPT ![mutations[i].commentId] =
                              extractApiMessage(submitError, "Failed to create reply.")]
  /\ mutations' = Settle(i, "error", EmptyObject)
  /\ UNCHANGED <<likeVars, followVars, callVars, notifVars, fetches, commentSubmitError, commentActionError>>

\* --- updateCommentMutation (ReplyThread of commentId)
UpdateCommentMutate(commentId, content) ==
  /\ Len(mutations) < MaxMutations
  /\ ~isPending("updateComment", commentId)
  /\ LET previousComments == getQueryData(cache, postCommentsQueryKey)
     IN /\ cache' = setQueryData(cache, postCommentsQueryKey,
                      patchEntityInInfiniteQueryData(
                        cache[postCommentsQueryKey], "comments", commentId,
                        [content |-> content, body |-> content]))
        /\ mutations' = Append(mutations,
             [kind |-> "updateComment", commentId |-> commentId, status |-> "pending", started |-> cache, data |-> EmptyObject,
              content |-> content,
              context |-> [previousComments |-> previousComments]])
  /\ commentActionError' = [commentActionError EXCEPT ![commentId] = ""]
  /\ UNCHANGED <<likeVars, followVars, callVars, notifVars, fetches, commentSubmitError, replySubmitError>>

\* the `comment` prop of the ReplyThread: the record the list shows for the id
commentProp(commentId) ==
  CHOOSE c \in RenderedComments :
    /\ getEntityId(c) = commentId
    /\ \A i \in 1..Len(allComments) :
         getEntityId(allComments[i]) = commentId =>
           \E j \in 1..i : allComments[j] = c

\* With the comment gone from the list the replace finds no record with the
\* id, whatever the last `comment` prop was: the cache stays as it is.
UpdateCommentSuccess(i) ==
  /\ mutations[i].kind = "updateComment" /\ mutations[i].status = "pending"
  /\ \E responseData \in UpdateResponses(mutations[i].commentId, mutations[i].content) :
       LET commentId == mutations[i].commentId
           updatedComment == extractCreatedEntityFromResponse(responseData, "comment")
           onScreen == \E c \in RenderedComments : getEntityId(c) = commentId
       IN /\ mutations' = Settle(i, "success", responseData)
          /\ IF updatedComment # Null /\ onScreen
               THEN cache' = setQueryData(cache, postCommentsQueryKey,
                            replaceEntityInInfiniteQueryData(
                              cache[postCommentsQueryKey], "comments", commentId,
                              updatedComment @@ commentProp(commentId)))
               ELSE cache' = cache
  /\ UNCHANGED <<likeVars, followVars, callVars, notifVars, fetches, commentSubmitError, replySubmitError, commentActionError>>

UpdateCommentError(i) ==
  /\ mutations[i].kind = "updateComment" /\ mutations[i].status = "pending"
  /\ cache' = restoreQuery(cache, postCommentsQueryKey, mutations[i].context.previousComments)
  /\ \E error \in ApiErrors :
       commentActionError' = [commentActionError EXCEPT ![mutations[i].commentId] =
                                extractApiMessage(error, "Failed to update comment.")]
  /\ mutations' = Settle(i, "error", EmptyObject)
  /\ UNCHANGED <<likeVars, followVars, callVars, notifVars, fetches, commentSubmitError, replySubmitError>>

\* --- deleteCommentMutation (ReplyThread of commentId)
DeleteCommentMutate(commentId) ==
  /\ Len(mutations) < MaxMutations
  /\ ~isPending("deleteComment", commentId)
  /\ LET previousComments == getQueryData(cache, postCommentsQueryKey)
         previousReplies == getQueryData(cache, commentRepliesQueryKey(commentId))
     IN /\ cache' = removeQueries(
                      setQueryData(cache, postCommentsQueryKey,
                        removeEntityFromInfiniteQueryData(
                          cache[postCommentsQueryKey], "comments", commentId)),
                      commentRepliesQueryKey(commentId))
        /\ mutations' = Append(mutations,
             [kind |-> "deleteComment", commentId |-> commentId, status |-> "pending", started |-> cache, data |-> EmptyObject,
              content |-> "",
              context |-> [previousComments |-> previousComments,
                           previousReplies |-> previousReplies]])
  /\ commentActionError' = [commentActionError EXCEPT ![commentId] = ""]
  /\ UNCHANGED <<likeVars, followVars, callVars, notifVars, fetches, commentSubmitError, replySubmitError>>

DeleteCommentSuccess(i) ==
  /\ mutations[i].kind = "deleteComment" /\ mutations[i].status = "pending"
  /\ mutations' = Settle(i, "success", [message |-> "success"])
  /\ UNCHANGED <<likeVars, followVars, callVars, notifVars, cache, fetches, commentSubmitError, replySubmitError, commentActionError>>

DeleteCommentError(i) ==
  /\ mutations[i].kind = "deleteComment" /\ mutations[i].status = "pending"
  /\ cache' = restoreQuery(
                restoreQuery(cache, postCommentsQueryKey, mutations[i].context.previousComments),
                commentRepliesQueryKey(mutations[i].commentId),
                mutations[i].context.previousReplies)
  /\ \E error \in ApiErrors :
       commentActionError' = [commentActionError EXCEPT ![mutations[i].commentId] =
                                extractApiMessage(error, "Failed to delete comment.")]
  /\ mutations' = Settle(i, "error", EmptyObject)
  /\ UNCHANGED <<likeVars, followVars, callVars, notifVars, fetches, commentSubmitError, replySubmitError>>

\* ids of the comments on screen; the edit / delete menu is shown for own
\* comments only, which an optimistic placeholder (no creator id) is not
RenderedIds == {getEntityId(c) : c \in RenderedComments}

ManageableIds == {getEntityId(c) : c \in {x \in RenderedComments : ~BoolField(x, "isOptimistic")}}

Next ==
  \/ FetchComments
  \/ FetchNextComments
  \/ \E c \in RenderedIds : FetchReplies(c)
  \/ \E content \in Contents : CreateCommentMutate(content)
  \/ \E c \in RenderedIds, content \in Contents : CreateReplyMutate(c, content)
  \/ \E c \in ManageableIds, content \in Contents : UpdateCommentMutate(c, content)
  \/ \E c \in ManageableIds : DeleteCommentMutate(c)
  \/ \E i \in 1..Len(mutations) : CreateCommentSuccess(i)
  \/ \E i \in 1..Len(mutations) : CreateCommentError(i)
  \/ \E i \in 1..Len(mutations) : CreateReplySuccess(i)
  \/ \E i \in 1..Len(mutations) : CreateReplyError(i)
  \/ \E i \in 1..Len(mutations) : UpdateCommentSuccess(i)
  \/ \E i \in 1..Len(mutations) : UpdateCommentError(i)
  \/ \E i \in 1..Len(mutations) : DeleteCommentSuccess(i)
  \/ \E i \in 1..Len(mutations) : DeleteCommentError(i)

Spec == Init /\ [][Next]_vars

\* ------------------------------------------------ like reconciliation alone
\* One call of getLikeResultFromResponse on arguments drawn at the start.
InitLike ==
  /\ InitCache
  /\ FollowIdle
  /\ CallIdle
  /\ NotifIdle
  /\ PostCardIdle
  /\ likeInput \in LikeInputs
  /\ likeResult = NoLikeResult

ReconcileLike ==
  /\ likeResult = NoLikeResult
  /\ likeResult' = getLikeResultFromResponse(likeInput.responseData,
                                              likeInput.currentLikeState,
                                              likeInput.currentCount)
  /\ UNCHANGED <<cacheVars, followVars, callVars, notifVars, likeInput>>

NextLike == ReconcileLike

SpecLike == InitLike /\ [][NextLike]_vars

\* ------------------------------------------------------- follow toggles
\* the follow state a row of the users list shows (searchUser.jsx)
SearchShown(userId) ==
  IF searchFollowOverrides[userId] # NoOverride
    THEN searchFollowOverrides[userId]
    ELSE [isFollowing |-> searchUsers[userId].isFollowing,
          followersCount |-> searchUsers[userId].followersCount]

\* isFollowingOtherProfile / otherProfileFollowersCount of the profile page
ProfileShown(userId) ==
  IF profileFollowOverrides[userId] # NoOverride
    THEN profileFollowOverrides[userId]
    ELSE [isFollowing |-> profiles[userId].isFollowing,
          followersCount |-> profiles[userId].followersCount]

\* the variables both handlers hand to followMutation.mutate
FollowVariables(userId, currentIsFollowing, currentFollowersCount) ==
  [userId |-> userId,
   currentIsFollowing |-> currentIsFollowing,
   currentFollowersCount |-> currentFollowersCount,
   nextIsFollowing |-> ~currentIsFollowing,
   nextFollowersCount |->
     Max(0, currentFollowersCount + (IF ~currentIsFollowing THEN 1 ELSE -1))]

\* a rollback that steps back from the optimistic values
followRollback_recomputed(variables) ==
  [isFollowing |-> ~variables.nextIsFollowing,
   followersCount |->
     Max(0, variables.nextFollowersCount + (IF variables.nextIsFollowing THEN -1 ELSE 1))]

\* the override onError writes, from the values captured at the toggle
followRollback(variables) ==
  [isFollowing |-> variables.currentIsFollowing,
   followersCount |-> variables.currentFollowersCount]

\* followMutation.isPending && followMutation.variables?.userId === otherProfileId:
\* the hook reports its latest mutation
LatestProfileMutation ==
  {i \in 1..Len(followMutations) :
     /\ followMutations[i].surface = "profile"
     /\ \A j \in (i + 1)..Len(followMutations) : followMutations[j].surface # "profile"}

isFollowUpdating ==
  \E i \in LatestProfileMutation :
    /\ followMutations[i].status = "pending"
    /\ followMutations[i].variables.userId = otherProfileId

\* handleFollowToggle + followMutation.onMutate (searchUser.jsx); `shown`
\* keeps, for the properties, what the row showed before the toggle
handleFollowToggle(userId) ==
  /\ Len(followMutations) < MaxToggles
  /\ userId \notin followLoadingById
  /\ LET currentOverride == searchFollowOverrides[userId]
         currentIsFollowing == IF currentOverride # NoOverride
                                 THEN currentOverride.isFollowing
                                 ELSE searchUsers[userId].isFollowing
         currentFollowersCount == IF currentOverride # NoOverride
                                    THEN currentOverride.followersCount
                                    ELSE searchUsers[userId].followersCount
         variables == FollowVariables(userId, currentIsFollowing, currentFollowersCount)
     IN /\ searchFollowOverrides' =
             [searchFollowOverrides EXCEPT ![userId] =
                [isFollowing |-> variables.nextIsFollowing,
                 followersCount |-> variables.nextFollowersCount]]
        /\ followMutations' = Append(followMutations,
             [surface |-> "search", variables |-> variables, status |-> "pending",
              shown |-> SearchShown(userId)])
  /\ searchFollowError' = ""
  /\ followLoadingById' = followLoadingById \cup {userId}
  /\ UNCHANGED <<cacheVars, likeVars, callVars, notifVars, searchUsers, profiles, profileFollowOverrides,
                 profileFollowError, otherProfileId>>

\* the request succeeded: no onSuccess, onSettled clears the loading flag
SearchFollowSuccess(i) ==
  /\ followMutations[i].surface = "search" /\ followMutations[i].status = "pending"
  /\ followLoadingById' = followLoadingById \ {followMutations[i].variables.userId}
  /\ followMutations' = [followMutations EXCEPT ![i].status = "success"]
  /\ UNCHANGED <<cacheVars, likeVars, callVars, notifVars, searchUsers, searchFollowOverrides, searchFollowError,
                 profiles, profileFollowOverrides, profileFollowError, otherProfileId>>

\* the request failed: onError, then onSettled
SearchFollowError(i) ==
  /\ followMutations[i].surface = "search" /\ followMutations[i].status = "pending"
  /\ searchFollowOverrides' =
       [searchFollowOverrides EXCEPT ![followMutations[i].variables.userId] =
          followRollback(followMutations[i].variables)]
  /\ \E mutationError \in ApiErrors :
       searchFollowError' = extractApiMessage(mutationError, "Failed to update follow status.")
  /\ followLoadingById' = followLoadingById \ {followMutations[i].variables.userId}
  /\ followMutations' = [followMutations EXCEPT ![i].status = "error"]
  /\ UNCHANGED <<cacheVars, likeVars, callVars, notifVars, searchUsers, profiles, profileFollowOverrides,
                 profileFollowError, otherProfileId>>

\* handleOtherProfileFollowToggle + followMutation.onMutate (profile page)
handleOtherProfileFollowToggle ==
  /\ Len(followMutations) < MaxToggles
  /\ ~isFollowUpdating
  /\ LET currentIsFollowing == ProfileShown(otherProfileId).isFollowing
         currentFollowersCount == ProfileShown(otherProfileId).followersCount
         variables == FollowVariables(otherProfileId, currentIsFollowing,
                                      currentFollowersCount)
     IN /\ profileFollowOverrides' =
             [profileFollowOverrides EXCEPT ![otherProfileId] =
                [isFollowing |-> variables.nextIsFollowing,
                 followersCount |-> variables.nextFollowersCount]]
        /\ followMutations' = Append(followMutations,
             [surface |-> "profile", variables |-> variables, status |-> "pending",
              shown |-> ProfileShown(otherProfileId)])
  /\ profileFollowError' = ""
  /\ UNCHANGED <<cacheVars, likeVars, callVars, notifVars, searchUsers, searchFollowOverrides, followLoadingById,
                 searchFollowError, profiles, otherProfileId>>

\* the request succeeded: onSettled invalidates the profile queries, whose
\* refetch is RefetchProfile
ProfileFollowSuccess(i) ==
  /\ followMutations[i].surface = "profile" /\ followMutations[i].status = "pending"
  /\ followMutations' = [followMutations EXCEPT ![i].status = "success"]
  /\ UNCHANGED <<cacheVars, likeVars, callVars, notifVars, searchUsers, searchFollowOverrides, followLoadingById,
                 searchFollowError, profiles, profileFollowOverrides, profileFollowError,
                 otherProfileId>>

ProfileFollowError(i) ==
  /\ followMutations[i].surface = "profile" /\ followMutations[i].status = "pending"
  /\ profileFollowOverrides' =
       [profileFollowOverrides EXCEPT ![followMutations[i].variables.userId] =
          followRollback(followMutations[i].variables)]
  /\ \E error \in ApiErrors :
       profileFollowError' = extractApiMessage(error, "Failed to update follow status.")
  /\ followMutations' = [followMutations EXCEPT ![i].status = "error"]
  /\ UNCHANGED <<cacheVars, likeVars, callVars, notifVars, searchUsers, searchFollowOverrides, followLoadingById,
                 searchFollowError, profiles, otherProfileId>>

\* the route changes to another user's profile; the page keeps its state
NavigateProfile(userId) ==
  /\ userId # otherProfileId
  /\ otherProfileId' = userId
  /\ UNCHANGED <<cacheVars, likeVars, callVars, notifVars, searchUsers, searchFollowOverrides, followLoadingById,
                 searchFollowError, profiles, profileFollowOverrides, profileFollowError,
                 followMutations>>

\* the profile query of a user is refetched after a settled toggle
RefetchProfile(userId) ==
  /\ \E i \in 1..Len(followMutations) :
       /\ followMutations[i].surface = "profile"
       /\ followMutations[i].status # "pending"
  /\ \E state \in FollowStates :
       /\ state # profiles[userId]
       /\ profiles' = [profiles EXCEPT ![userId] = state]
  /\ UNCHANGED <<cacheVars, likeVars, callVars, notifVars, searchUsers, searchFollowOverrides, followLoadingById,
                 searchFollowError, profileFollowOverrides, profileFollowError,
                 otherProfileId, followMutations>>

NextFollow ==
  \/ \E u \in UserIds : handleFollowToggle(u)
  \/ \E i \in 1..Len(followMutations) : SearchFollowSuccess(i)
  \/ \E i \in 1..Len(followMutations) : SearchFollowError(i)
  \/ handleOtherProfileFollowToggle
  \/ \E i \in 1..Len(followMutations) : ProfileFollowSuccess(i)
  \/ \E i \in 1..Len(followMutations) : ProfileFollowError(i)
  \/ \E u \in UserIds : NavigateProfile(u)
  \/ \E u \in UserIds : RefetchProfile(u)

InitFollow ==
  /\ InitCache
  /\ LikeIdle
  /\ CallIdle
  /\ NotifIdle
  /\ PostCardIdle
  /\ FollowLoaded

SpecFollow == InitFollow /\ [][NextFollow]_vars

\* =================================================================
\* Calls of the pure helpers (specification SpecCalls): one call, drawn
\* from a bounded set of arguments, and its result
\* =================================================================
\* ---- reconciliation of a created comment / reply (onSuccess)
\* records the server may answer with: with or without _id, id, content
ServerEntities ==
  {e \in UNION {[fields -> {"s1", "s2", "text"}] : fields \in SUBSET {"_id", "id", "content"}} :
     /\ "_id" \in DOMAIN e => e._id \in {"s1"}
     /\ "id" \in DOMAIN e => e.id \in {"s1", "s2"}
     /\ "content" \in DOMAIN e => e.content = "text"}

\* the places of a response body the record may sit in
WrappedIn(entityType, e) ==
  {e,
   [data |-> e],
   [message |-> "success", data |-> (entityType :> e)],
   (entityType :> e),
   [message |-> "success", data |-> [data |-> e]]}

ReconcileCalls ==
  UNION {{[fn |-> "reconcileCreated", entityType |-> entityType, responseData |-> body,
           optimisticEntity |-> createOptimisticEntity("text", entityType, 1)] :
             body \in WrappedIn(entityType, e)} :
           entityType \in {"comment", "reply"}, e \in ServerEntities}

\* the record onSuccess puts in place of the placeholder, Null when the
\* response holds no record and the handler only invalidates
reconcileCreated(responseData, entityType, optimisticEntity) ==
  LET serverEntity == extractCreatedEntityFromResponse(responseData, entityType)
  IN IF serverEntity = Null THEN Null
     ELSE mergeOptimisticWithServerEntity(optimisticEntity, serverEntity)

ReconcileCreatedCall ==
  /\ call.fn = "reconcileCreated" /\ result = NoResult
  /\ result' = Returned(reconcileCreated(call.responseData, call.entityType,
                                        call.optimisticEntity))
  /\ UNCHANGED <<cacheVars, likeVars, followVars, notifVars, call>>

\* ---- next-page decision of the infinite queries
PageLens == {0, COMMENTS_PAGE_LIMIT - 1, COMMENTS_PAGE_LIMIT, COMMENTS_PAGE_LIMIT + 1}

ItemsOfLen(n) == [k \in 1..n |-> [_id |-> "c1"]]

LastPages(listKey) ==
  {(listKey :> ItemsOfLen(n)) @@ [page |-> Num(page), totalPages |-> totalPages, totalCount |-> Null] :
     n \in PageLens, page \in 1..MaxPages,
     totalPages \in {Null} \cup {Num(k) : k \in 1..(MaxPages + 1)}}
  \cup {[page |-> Num(page), totalCount |-> Null] : page \in 1..MaxPages}

NextPageCalls ==
  UNION {{[fn |-> "getNextPageParam", listKey |-> listKey, lastPage |-> lastPage] :
            lastPage \in LastPages(listKey)} : listKey \in {"comments", "replies"}}

LimitOf(listKey) == IF listKey = "replies" THEN REPLIES_PAGE_LIMIT ELSE COMMENTS_PAGE_LIMIT

\* hasNextPage of useInfiniteQuery: getNextPageParam returned a page
hasNextPage(nextPageParam) == nextPageParam # 0

NextPageCall ==
  /\ call.fn = "getNextPageParam" /\ result = NoResult
  /\ result' = Returned(getNextPageParam(call.lastPage, call.listKey,
                                        LimitOf(call.listKey)))
  /\ UNCHANGED <<cacheVars, likeVars, followVars, notifVars, call>>

\* ---- bookmark toggle answers
BookmarkMessages ==
  {<<"P", "o", "s", "t", " ", "s", "a", "v", "e", "d">>,
   <<"P", "o", "s", "t", " ", "u", "n", "s", "a", "v", "e", "d">>,
   <<"P", "o", "s", "t", " ", "B", "o", "o", "k", "m", "a", "r", "k", "e", "d", " ", "s", "u", "c", "c", "e", "s", "s", "f", "u", "l", "l", "y">>,
   <<"R", "e", "m", "o", "v", "e", " ", "b", "o", "o", "k", "m", "a", "r", "k", " ", "d", "o", "n", "e">>,
   <<"P", "o", "s", "t", " ", "u", "n", "b", "o", "o", "k", "m", "a", "r", "k", "e", "d">>,
   <<"s", "u", "c", "c", "e", "s", "s">>,
   <<>>}

\* values a flag of the response may hold: booleans, numbers, recognized
\* tokens (with other case and blanks around), unrecognized strings, null
FlagValues ==
  {Bool(TRUE), Bool(FALSE), Num(0), Num(1), Null,
   Str(<<" ", "S", "a", "v", "e", "d", " ">>), Str(<<"N", "O">>), Str(<<"m", "a", "y", "b", "e">>), Str(<<>>)}

\* pairs of places (in data, at top level) that carry a flag
FlagPlaces ==
  {<<"isBookmarked", "isBookmarked">>, <<"saved", "bookmarked">>, <<"isSaved", "saved">>}

BookmarkFlagShapes ==
  {EmptyObject}
  \cup UNION {{[data |-> (place[1] :> v)] : v \in FlagValues} : place \in FlagPlaces}
  \cup UNION {{(place[2] :> v) : v \in FlagValues} : place \in FlagPlaces}
  \cup UNION {{(place[2] :> w) @@ [data |-> (place[1] :> v)] : v \in FlagValues, w \in FlagValues} :
                place \in FlagPlaces}

BookmarkCalls ==
  {[fn |-> "getBookmarkResultFromResponse",
    responseData |-> IF message = <<>> THEN shape ELSE [message |-> message] @@ shape,
    currentBookmarkState |-> current] :
     message \in BookmarkMessages, shape \in BookmarkFlagShapes, current \in BOOLEAN}

BookmarkCall ==
  /\ call.fn = "getBookmarkResultFromResponse" /\ result = NoResult
  /\ result' = Returned(getBookmarkResultFromResponse(call.responseData,
                                                      call.currentBookmarkState))
  /\ UNCHANGED <<cacheVars, likeVars, followVars, notifVars, call>>

\* ---- share answers
ShareMessages ==
  {<<"P", "o", "s", "t", " ", "s", "h", "a", "r", "e", "d", " ", "s", "u", "c", "c", "e", "s", "s", "f", "u", "l", "l", "y">>,
   <<"P", "o", "s", "t", " ", "u", "n", "s", "h", "a", "r", "e", "d">>,
   <<"S", "h", "a", "r", "e", " ", "r", "e", "m", "o", "v", "e", "d">>,
   <<"s", "u", "c", "c", "e", "s", "s">>,
   <<>>}

ShareCountShapes ==
  {EmptyObject}
  \cup {[data |-> [sharesCount |-> Num(n)]] : n \in 0..MaxShareCount}
  \cup {[sharesCount |-> Num(n)] : n \in 0..MaxShareCount}
  \cup {[data |-> [count |-> Num(n)]] : n \in 0..MaxShareCount}
  \cup {[data |-> [shares |-> LikesArray(n)]] : n \in 0..MaxShareCount}
  \cup {[shares |-> LikesArray(n)] : n \in 0..MaxShareCount}

ShareCalls ==
  {[fn |-> "getShareCountFromResponse",
    responseData |-> IF message = <<>> THEN shape ELSE [message |-> message] @@ shape,
    currentCount |-> Num(n)] :
     message \in ShareMessages, shape \in ShareCountShapes, n \in 0..MaxShareCount}

ShareCall ==
  /\ call.fn = "getShareCountFromResponse" /\ result = NoResult
  /\ result' = Returned(getShareCountFromResponse(call.responseData, call.currentCount))
  /\ UNCHANGED <<cacheVars, likeVars, followVars, notifVars, call>>

\* ---- errors a remote call can reject with
\* a record over the given fields, each holding one of the given strings
StringRecords(fields, strings) == UNION {[chosen -> strings] : chosen \in SUBSET fields}

ValidationErrors ==
  {<<>>, <<[msg |-> "first invalid"]>>, <<[msg |-> ""]>>,
   <<[msg |-> "first invalid"], [msg |-> "second invalid"]>>, <<[param |-> "body"]>>}

ErrorPayloads ==
  {payload @@ errors : payload \in StringRecords({"message", "error"}, {"", "payload text"}),
                       errors \in {EmptyObject} \cup {[errors |-> v] : v \in ValidationErrors}}

RejectedErrors ==
  {transport @@ response :
     transport \in StringRecords({"message"}, {"", "Network Error"}),
     response \in {EmptyObject} \cup {[response |-> [data |-> d]] : d \in ErrorPayloads}}

Fallbacks == {"Failed to update like.", "Failed to load comments."}

ApiMessageCalls ==
  {[fn |-> "extractApiMessage", error |-> error, fallbackMessage |-> fallback] :
     error \in RejectedErrors, fallback \in Fallbacks}

ApiMessageCall ==
  /\ call.fn = "extractApiMessage" /\ result = NoResult
  /\ result' = Returned(extractApiMessage(call.error, call.fallbackMessage))
  /\ UNCHANGED <<cacheVars, likeVars, followVars, notifVars, call>>

\* ---- the like toggle of a reply (ReplyThread)
\* const replyLikeState = replyLikeStates[replyId] || { isLiked: ..., count: ... }
\* entry is replyLikeStates[replyId], Undef before the first toggle
replyLikeState(entry, reply) ==
  IF entry # Undef THEN entry
  ELSE [isLiked |-> BoolField(reply, "isLiked") \/ BoolField(reply, "likedByMe"),
        count |-> Num(IF getNumericCount(NumField(reply, "likesCount")) # 0
                        THEN getNumericCount(NumField(reply, "likesCount"))
                        ELSE getNumericCount(NumField(reply, "likes")))]

\* replyLikeMutation.onSuccess: the new replyLikeStates[replyId]
replyLikeOnSuccess(entry, reply, responseData) ==
  LET current == IF entry # Undef THEN entry ELSE [isLiked |-> FALSE, count |-> Num(0)]
  IN getLikeResultFromResponse(responseData, current.isLiked, current.count)

\* replies as the server reports them, liked or not by the user
LikedReplies ==
  {[_id |-> "r1", content |-> "old", likesCount |-> Num(n), isLiked |-> liked] :
     n \in 0..MaxReplyLikes, liked \in BOOLEAN}

ReplyLikeEntries ==
  {Undef} \cup [isLiked : BOOLEAN, count : {Num(n) : n \in 0..MaxReplyLikes}]

ReplyLikeResponses ==
  {IF message = <<>> THEN shape ELSE [message |-> message] @@ shape :
     message \in LikeMessages,
     shape \in {EmptyObject, [data |-> [likesCount |-> Num(1)]]}}

ReplyLikeCalls ==
  {[fn |-> "replyLikeOnSuccess", entry |-> entry, reply |-> reply,
    responseData |-> responseData] :
     entry \in ReplyLikeEntries, reply \in LikedReplies,
     responseData \in ReplyLikeResponses}

ReplyLikeCall ==
  /\ call.fn = "replyLikeOnSuccess" /\ result = NoResult
  /\ result' = Returned(replyLikeOnSuccess(call.entry, call.reply, call.responseData))
  /\ UNCHANGED <<cacheVars, likeVars, followVars, notifVars, call>>

\* ---- hasNextPage before and after an optimistic edit of the comments list
\* n comments with ids of their own
DistinctComments(n, page) ==
  [k \in 1..n |-> [_id |-> ("p" \o ToString(page)) \o ("-" \o ToString(k)), content |-> "old"]]

\* a fetched page of the comments query
CommentsPage(n, page, totalPages) ==
  [comments |-> DistinctComments(n, page), page |-> Num(page), totalPages |-> totalPages,
   totalCount |-> Null]

\* cached data of one page or of two, all pages with the same totalPages
EditedLists ==
  UNION {{[pages |-> <<CommentsPage(n, 1, totalPages)>>, pageParams |-> <<1>>] :
            n \in PageLens}
         \cup {[pages |-> <<CommentsPage(COMMENTS_PAGE_LIMIT, 1, totalPages),
                            CommentsPage(n, 2, totalPages)>>,
                 pageParams |-> <<1, 2>>] : n \in PageLens} :
         totalPages \in {Null} \cup {Num(k) : k \in 1..(MaxPages + 1)}}

\* prepend of a placeholder, remove of the first comment, of the first
\* comment of the last page, or of a comment that is not cached
Edits ==
  {[op |-> "prepend", targetId |-> ""]}
    \cup {[op |-> "remove", targetId |-> id] : id \in {"p1-1", "p2-1", "gone"}}

EditCalls ==
  {[fn |-> "hasNextPageAfterEdit", oldData |-> oldData, edit |-> edit] :
     oldData \in EditedLists, edit \in Edits}

\* hasNextPage as the infinite-query observer derives it from cached data
hasNextPageOf(data, listKey) ==
  /\ HasPages(data) /\ Len(data.pages) > 0
  /\ hasNextPage(getNextPageParam(data.pages[Len(data.pages)], listKey, LimitOf(listKey)))

\* the setQueryData updater of createCommentMutation.onMutate /
\* deleteCommentMutation.onMutate
EditedData(oldData, edit) ==
  IF edit.op = "prepend"
    THEN prependEntityToInfiniteQueryData(oldData, "comments",
           createOptimisticEntity("new", "comment", 1))
    ELSE removeEntityFromInfiniteQueryData(oldData, "comments", edit.targetId)

EditCall ==
  /\ call.fn = "hasNextPageAfterEdit" /\ result = NoResult
  /\ result' = Returned([before |-> hasNextPageOf(call.oldData, "comments"),
                         after |-> hasNextPageOf(EditedData(call.oldData, call.edit),
                                                 "comments")])
  /\ UNCHANGED <<cacheVars, likeVars, followVars, notifVars, call>>

\* ---- the requests of the mark-as-read mutations of the notifications page
\* the answers to one request of a mutation: axios resolves with the
\* response or rejects with an error that carries the response, if any
Resolved(response) == [ok |-> TRUE, response |-> response]
Rejected(error) == [ok |-> FALSE, error |-> error]
HttpError(status) ==
  [response |-> [status |-> status, data |-> EmptyObject],
   message |-> "Request failed"]
NetworkError == [message |-> "Network Error"]
NotifAnswers ==
  {Resolved([status |-> 200, data |-> [message |-> "success"]])}
    \cup {Rejected(HttpError(status)) : status \in {404, 405, 500}}
    \cup {Rejected(NetworkError)}

\* error?.response?.status, 0 standing for undefined (both are falsy)
ErrorStatus(error) ==
  IF "response" \in DOMAIN error /\ "status" \in DOMAIN error.response
    THEN error.response.status ELSE 0

\* attempts that start with PATCH
markNotificationReadAttempts_patchFirst(notificationId) ==
  <<[method |-> "PATCH", url |-> <<"notifications", notificationId, "read">>],
    [method |-> "PUT", url |-> <<"notifications", notificationId, "read">>],
    [method |-> "PATCH", url |-> <<"notifications", "read">>,
     data |-> [notificationId |-> notificationId, id |-> notificationId]],
    [method |-> "PUT", url |-> <<"notifications", "read">>,
     data |-> [notificationId |-> notificationId, id |-> notificationId]]>>

\* the attempts arrays
markNotificationReadAttempts(notificationId) ==
  <<[method |-> "PUT", url |-> <<"notifications", notificationId, "read">>],
    [method |-> "PATCH", url |-> <<"notifications", notificationId, "read">>],
    [method |-> "PUT", url |-> <<"notifications", "read">>,
     data |-> [notificationId |-> notificationId, id |-> notificationId]],
    [method |-> "PATCH", url |-> <<"notifications", "read">>,
     data |-> [notificationId |-> notificationId, id |-> notificationId]]>>

markAllNotificationsReadAttempts ==
  <<[method |-> "PUT", url |-> <<"notifications", "read-all">>],
    [method |-> "PATCH", url |-> <<"notifications", "read-all">>],
    [method |-> "POST", url |-> <<"notifications", "read-all">>]>>

AttemptsOf(mutation) ==
  IF mutation.kind = "markOne" THEN markNotificationReadAttempts(mutation.variables)
  ELSE markAllNotificationsReadAttempts

NotFoundMessageOf(mutation) ==
  IF mutation.kind = "markOne" THEN "Notification not found."
  ELSE "No unread notifications."

\* a loop in which a 404 is an error like any other status
attemptOutcome_notFoundThrows(attempts, attempt, answer, notFoundMessage) ==
  IF answer.ok THEN [t |-> "return", value |-> answer.response]
  ELSE IF ErrorStatus(answer.error) # 0 /\ ErrorStatus(answer.error) # 405
    THEN [t |-> "throw", error |-> answer.error]
  ELSE IF attempt < Len(attempts) THEN [t |-> "next"]
  ELSE [t |-> "throw", error |-> answer.error]

\* One turn of the for loop of markNotificationRead and of
\* markAllNotificationsRead, for the answer to request number attempt:
\* return the response, return the benign value on a 404, throw the error
\* of any other status but 405, else go on with the next attempt, and
\* throw lastError when there is none.
attemptOutcome(attempts, attempt, answer, notFoundMessage) ==
  IF answer.ok THEN [t |-> "return", value |-> answer.response]
  ELSE IF ErrorStatus(answer.error) = 404
    THEN [t |-> "return",
          value |-> [data |-> [success |-> TRUE, message |-> notFoundMessage]]]
  ELSE IF ErrorStatus(answer.error) # 0 /\ ErrorStatus(answer.error) # 404
            /\ ErrorStatus(answer.error) # 405
    THEN [t |-> "throw", error |-> answer.error]
  ELSE IF attempt < Len(attempts) THEN [t |-> "next"]
  ELSE [t |-> "throw", error |-> answer.error]

\* ---- a whole call of markNotificationRead
\* the for loop from request number attempt on, answers[k] being the answer
\* to request number k: the requests sent and how the function ends
RECURSIVE runAttempts(_, _, _, _)
runAttempts(attempts, attempt, answers, notFoundMessage) ==
  LET outcome == attemptOutcome(attempts, attempt, answers[attempt], notFoundMessage)
  IN IF outcome.t = "next"
       THEN runAttempts(attempts, attempt + 1, answers, notFoundMessage)
       ELSE [requests |-> SubSeq(attempts, 1, attempt), outcome |-> outcome]

markNotificationRead(notificationId, answers) ==
  IF notificationId = ""
    THEN [requests |-> <<>>,
          outcome |-> [t |-> "throw", error |-> [message |-> "Missing notification id."]]]
    ELSE runAttempts(markNotificationReadAttempts(notificationId), 1, answers,
                     "Notification not found.")

\* calls with the answers the server would give to the four requests
MarkReadCalls ==
  {[fn |-> "markNotificationRead", notificationId |-> notificationId, answers |-> answers] :
     notificationId \in {"", "n1"},
     answers \in [1..Len(markNotificationReadAttempts("n1")) -> NotifAnswers]}

MarkReadCall ==
  /\ call.fn = "markNotificationRead" /\ result = NoResult
  /\ result' = Returned(markNotificationRead(call.notificationId, call.answers))
  /\ UNCHANGED <<cacheVars, likeVars, followVars, notifVars, call>>

Calls ==
  ReconcileCalls \cup NextPageCalls \cup BookmarkCalls \cup ShareCalls \cup ApiMessageCalls
    \cup ReplyLikeCalls \cup EditCalls \cup MarkReadCalls

InitCalls ==
  /\ InitCache
  /\ LikeIdle
  /\ FollowIdle
  /\ NotifIdle
  /\ PostCardIdle
  /\ call \in Calls
  /\ result = NoResult

NextCalls ==
  \/ ReconcileCreatedCall
  \/ NextPageCall
  \/ BookmarkCall
  \/ ShareCall
  \/ ApiMessageCall
  \/ ReplyLikeCall
  \/ EditCall
  \/ MarkReadCall

SpecCalls == InitCalls /\ [][NextCalls]_vars

\* =================================================================
\* Notifications page (Notifications.jsx) and the like toggle of a post
\* card (PostCard.jsx): specification SpecNotif
\* =================================================================
\* the notifications of the user, newest first
NotificationOrder == <<"n1", "n2">>
NotificationIds == Range(NotificationOrder)
PositionOf(id) == CHOOSE k \in 1..Len(NotificationOrder) : NotificationOrder[k] = id

\* what normalizeNotification keeps of an item, as far as the page reads it
NormalizedNotifications == [id : NotificationIds, isRead : BOOLEAN]

\* the lists GET /notifications answers, after normalizeNotification: no
\* id twice, the ids in the order of the server
ServerNotificationLists ==
  {list \in UNION {[1..n -> NormalizedNotifications] : n \in 0..MaxNotifications} :
     \A i, j \in 1..Len(list) : i < j => PositionOf(list[i].id) < PositionOf(list[j].id)}

\* a cached array
List(items) == [t |-> "array", v |-> items]

\* Array.isArray(value)
IsArray(value) == value.t = "array"

\* fetchNotifications: the unread filter is applied again on the client
fetchNotifications(serverList, onlyUnread) ==
  IF onlyUnread THEN SelectSeq(serverList, LAMBDA notification : ~notification.isRead)
  ELSE serverList

\* bodies answered by GET /notifications/unread-count
UnreadCountResponses ==
  {[data |-> [count |-> Num(n)]] : n \in 0..MaxNotifications}
    \cup {[unreadCount |-> Num(n)] : n \in 0..MaxNotifications}
    \cup {[count |-> Null], EmptyObject}

extractUnreadCount(responseData) ==
  LET value ==
        Coalesce(NumField(DataOf(responseData), "count"),
          Coalesce(NumField(DataOf(responseData), "unreadCount"),
            Coalesce(NumField(responseData, "count"),
              Coalesce(NumField(responseData, "unreadCount"), Num(0)))))
  IN IF IsFinite(JSNumber(value)) THEN JSNumber(value) ELSE Num(0)

\* ---- the state of the page
\* const { data: notifications = [] } of the query of the active filter
notifications ==
  LET data == notifCache[notificationsQueryKey(activeFilter = "unread")]
  IN IF IsArray(data) THEN data.v ELSE <<>>

\* const { data: unreadCount = 0 }
unreadCount ==
  IF notifCache[unreadCountQueryKey] = Undef THEN 0 ELSE notifCache[unreadCountQueryKey].v

\* the mutation a useMutation observer shows: the last one started
LastMutation(kind) ==
  LET started == SelectSeq(notifMutations, LAMBDA mutation : mutation.kind = kind)
  IN IF Len(started) = 0 THEN [kind |-> kind, status |-> "idle", variables |-> ""]
     ELSE started[Len(started)]

\* markOneMutation.isPending && markOneMutation.variables === notification.id
isMutating(notificationId) ==
  /\ LastMutation("markOne").status = "pending"
  /\ LastMutation("markOne").variables = notificationId

\* the onMutate context
NotifContext(c) ==
  [previousNotificationQueries |-> [key \in NotificationQueryKeys |-> c[key]],
   previousUnreadCount |-> c[unreadCountQueryKey]]

\* an optimistic step that marks the notification as read in the lists of
\* both filters and removes it from none
markOneOptimistic_marksEveryList(c, notificationId) ==
  LET nextList(key) ==
        List([i \in 1..Len(c[key].v) |->
           IF c[key].v[i].id = notificationId
             THEN [c[key].v[i] EXCEPT !.isRead = TRUE] ELSE c[key].v[i]])
      count == IF IsFinite(JSNumber(c[unreadCountQueryKey]))
                 THEN JSNumber(c[unreadCountQueryKey]).v ELSE 0
  IN [key \in DOMAIN c |->
        IF key = unreadCountQueryKey THEN Num(Max(0, count - 1))
        ELSE IF IsArray(c[key]) THEN nextList(key) ELSE c[key]]

\* markOneMutation.onMutate: the cache it leaves
markOneOptimistic(c, notificationId) ==
  LET nextList(key) ==
        IF key[2]
          THEN List(SelectSeq(c[key].v, LAMBDA item : item.id # notificationId))
          ELSE List([i \in 1..Len(c[key].v) |->
                 IF c[key].v[i].id = notificationId
                   THEN [c[key].v[i] EXCEPT !.isRead = TRUE] ELSE c[key].v[i]])
      count == IF IsFinite(JSNumber(c[unreadCountQueryKey]))
                 THEN JSNumber(c[unreadCountQueryKey]).v ELSE 0
  IN [key \in DOMAIN c |->
        IF key = unreadCountQueryKey THEN Num(Max(0, count - 1))
        ELSE IF IsArray(c[key]) THEN nextList(key) ELSE c[key]]

\* markAllMutation.onMutate: the cache it leaves
markAllOptimistic(c) ==
  LET nextList(key) ==
        IF key[2] THEN List(<<>>)
        ELSE List([i \in 1..Len(c[key].v) |-> [c[key].v[i] EXCEPT !.isRead = TRUE]])
  IN [key \in DOMAIN c |->
        IF key = unreadCountQueryKey THEN Num(0)
        ELSE IF IsArray(c[key]) THEN nextList(key) ELSE c[key]]

\* onError of both mutations: setQueryData of every captured list, then of
\* the captured unread count
rollbackNotifications(c, context) ==
  setQueryData(
    setQueryData(
      setQueryData(c, notificationsQueryKey(FALSE),
                   context.previousNotificationQueries[notificationsQueryKey(FALSE)]),
      notificationsQueryKey(TRUE),
      context.previousNotificationQueries[notificationsQueryKey(TRUE)]),
    unreadCountQueryKey, context.previousUnreadCount)

\* ---- the like toggle of one post card
PostLikeResponses ==
  {[message |-> <<"P", "o", "s", "t", " ", "l", "i", "k", "e", "d">>],
   [message |-> <<"P", "o", "s", "t", " ", "u", "n", "l", "i", "k", "e", "d">>]}

PostLikeAnswers ==
  {Resolved([status |-> 200, data |-> responseData]) : responseData \in PostLikeResponses}
    \cup {Rejected(HttpError(404)), Rejected(NetworkError)}

\* ---- Init
\* the page has loaded the list of one filter or of both, and maybe the
\* unread count
NotifLoaded ==
  /\ \E serverList \in ServerNotificationLists, loaded \in SUBSET BOOLEAN :
       notifCache \in
         {c \in [NotifKeys -> {Undef, List(serverList), List(fetchNotifications(serverList, TRUE))}
                               \cup {Num(n) : n \in 0..MaxNotifications}] :
            /\ \A onlyUnread \in BOOLEAN :
                 c[notificationsQueryKey(onlyUnread)] =
                   IF onlyUnread \in loaded
                     THEN List(fetchNotifications(serverList, onlyUnread)) ELSE Undef
            /\ c[unreadCountQueryKey] \in {Undef} \cup {Num(n) : n \in 0..MaxNotifications}}
  /\ activeFilter \in {"all", "unread"}
  /\ notifMutations = <<>>
  /\ notifFetches = 0
  /\ postLikeState = [isLiked |-> FALSE, count |-> Num(0)]
  /\ postLikeError = ""
  /\ postLikeMutation = [status |-> "idle", error |-> Null, started |-> 0,
                         responseStatus |-> 0]

InitNotif == InitCache /\ LikeIdle /\ FollowIdle /\ CallIdle /\ NotifLoaded /\ PostCardIdle

\* ---- queries
\* the notifications query of the active filter is answered
FetchNotifications ==
  /\ notifFetches < MaxNotifFetches
  /\ \E serverList \in ServerNotificationLists :
       notifCache' = [notifCache EXCEPT ![notificationsQueryKey(activeFilter = "unread")] =
                        List(fetchNotifications(serverList, activeFilter = "unread"))]
  /\ notifFetches' = notifFetches + 1
  /\ UNCHANGED <<cacheVars, likeVars, followVars, callVars, activeFilter, notifMutations,
                 postLikeVars>>

\* the unread-count query is answered
FetchUnreadCount ==
  /\ notifFetches < MaxNotifFetches
  /\ \E responseData \in UnreadCountResponses :
       notifCache' = [notifCache EXCEPT ![unreadCountQueryKey] =
                        extractUnreadCount(responseData)]
  /\ notifFetches' = notifFetches + 1
  /\ UNCHANGED <<cacheVars, likeVars, followVars, callVars, activeFilter, notifMutations,
                 postLikeVars>>

\* onClick of the filter buttons
SetActiveFilter ==
  /\ \E filter \in {"all", "unread"} :
       /\ filter # activeFilter
       /\ activeFilter' = filter
  /\ UNCHANGED <<cacheVars, likeVars, followVars, callVars, notifCache, notifMutations,
                 notifFetches, postLikeVars>>

\* ---- mutations
\* onMarkRead(notification.id) on an unread notification of the list on
\* screen: markOneMutation.mutate, up to the end of onMutate and the first
\* request of markNotificationRead
MarkOneMutate ==
  /\ Len(notifMutations) < MaxNotifMutations
  /\ \E i \in 1..Len(notifications) :
       /\ ~notifications[i].isRead
       /\ notifications[i].id # ""
       /\ ~isMutating(notifications[i].id)
       /\ notifCache' = markOneOptimistic(notifCache, notifications[i].id)
       /\ notifMutations' = Append(notifMutations,
            [kind |-> "markOne", variables |-> notifications[i].id, status |-> "pending",
             context |-> NotifContext(notifCache), attempt |-> 1, lastError |-> Null,
             data |-> Undef, error |-> Null])
  /\ UNCHANGED <<cacheVars, likeVars, followVars, callVars, activeFilter, notifFetches,
                 postLikeVars>>

\* the "Mark all as read" button: markAllMutation.mutate, up to the end of
\* onMutate and the first request of markAllNotificationsRead
MarkAllMutate ==
  /\ Len(notifMutations) < MaxNotifMutations
  /\ LastMutation("markAll").status # "pending"
  /\ unreadCount > 0
  /\ notifCache' = markAllOptimistic(notifCache)
  /\ notifMutations' = Append(notifMutations,
       [kind |-> "markAll", variables |-> "", status |-> "pending",
        context |-> NotifContext(notifCache), attempt |-> 1, lastError |-> Null,
        data |-> Undef, error |-> Null])
  /\ UNCHANGED <<cacheVars, likeVars, followVars, callVars, activeFilter, notifFetches,
                 postLikeVars>>

\* The request in flight of a pending mutation is answered: one turn of
\* the loop of its mutation function, then, when the function returned or
\* threw, the handlers of the mutation (onError restores the snapshot,
\* onSettled invalidates the queries, which changes no cached data).
MarkReadAnswer ==
  /\ \E i \in 1..Len(notifMutations), answer \in NotifAnswers :
       LET mutation == notifMutations[i]
           outcome == attemptOutcome(AttemptsOf(mutation), mutation.attempt, answer,
                                     NotFoundMessageOf(mutation))
           lastError == IF answer.ok THEN mutation.lastError ELSE answer.error
       IN /\ mutation.status = "pending"
          /\ CASE outcome.t = "return" ->
                    /\ notifMutations' = [notifMutations EXCEPT ![i] =
                         [mutation EXCEPT !.status = "success", !.lastError = lastError,
                                          !.data = outcome.value]]
                    /\ notifCache' = notifCache
               [] outcome.t = "throw" ->
                    /\ notifMutations' = [notifMutations EXCEPT ![i] =
                         [mutation EXCEPT !.status = "error", !.lastError = lastError,
                                          !.error = outcome.error]]
                    /\ notifCache' = rollbackNotifications(notifCache, mutation.context)
               [] OTHER ->
                    /\ notifMutations' = [notifMutations EXCEPT ![i] =
                         [mutation EXCEPT !.attempt = mutation.attempt + 1,
                                          !.lastError = lastError]]
                    /\ notifCache' = notifCache
  /\ UNCHANGED <<cacheVars, likeVars, followVars, callVars, activeFilter, notifFetches,
                 postLikeVars>>

\* the like button of the post card: postLikeMutation.mutate, up to the
\* end of onMutate and the request of togglePostLike
PostLikeMutate ==
  /\ postLikeMutation.status # "pending"
  /\ postLikeMutation.started < MaxPostLikes
  /\ postLikeError' = ""
  /\ postLikeMutation' = [status |-> "pending", error |-> Null,
                          started |-> postLikeMutation.started + 1, responseStatus |-> 0]
  /\ UNCHANGED <<cacheVars, likeVars, followVars, callVars, notifCache, activeFilter,
                 notifMutations, notifFetches, postLikeState, postCard>>

\* the request of togglePostLike is answered: onSuccess or onError
\* (postLikesCount is postLikeState.count, which is a number here)
PostLikeAnswer ==
  /\ postLikeMutation.status = "pending"
  /\ \E answer \in PostLikeAnswers :
       IF answer.ok
         THEN /\ postLikeState' = getLikeResultFromResponse(answer.response.data,
                                    postLikeState.isLiked, postLikeState.count)
              /\ postLikeMutation' = [postLikeMutation EXCEPT !.status = "success",
                                        !.responseStatus = answer.response.status]
              /\ UNCHANGED postLikeError
         ELSE /\ postLikeError' = extractApiMessage(answer.error, "Failed to update like.")
              /\ postLikeMutation' = [postLikeMutation EXCEPT !.status = "error",
                                        !.error = answer.error,
                                        !.responseStatus = ErrorStatus(answer.error)]
              /\ UNCHANGED postLikeState
  /\ UNCHANGED <<cacheVars, likeVars, followVars, callVars, notifCache, activeFilter,
                 notifMutations, notifFetches, postCard>>

NextNotif ==
  \/ FetchNotifications
  \/ FetchUnreadCount
  \/ SetActiveFilter
  \/ MarkOneMutate
  \/ MarkAllMutate
  \/ MarkReadAnswer
  \/ PostLikeMutate
  \/ PostLikeAnswer

SpecNotif == InitNotif /\ [][NextNotif]_vars

\* ---------------------------------------------------------------------
\* The post card (specification SpecPost): menu, edit form, delete and
\* share modals, and the five mutations of one card.
\* ---------------------------------------------------------------------
\* mutation.isPending of the useMutation observer of a kind: the last
\* mutation started is not settled
postIsPending(kind) ==
  LET started == SelectSeq(postCard.requests, LAMBDA request : request.kind = kind)
  IN Len(started) > 0 /\ ~started[Len(started)].settled

\* the requests of a kind that are in flight
InFlight(kind) ==
  {i \in 1..Len(postCard.requests) :
     postCard.requests[i].kind = kind /\ ~postCard.requests[i].settled}

\* mutation.mutate() up to the request: onMutate clears the error of the kind
mutate(card, kind) ==
  [card EXCEPT !.errors[kind] = "",
               !.requests = Append(@, [kind |-> kind, settled |-> FALSE])]

\* a handler has run and left the card as next
Handled(name, next) ==
  /\ postCard' = [next EXCEPT !.lastEvent = name]
  /\ UNCHANGED <<cacheVars, likeVars, followVars, callVars, notifCache, activeFilter,
                 notifMutations, notifFetches, postLikeState, postLikeError,
                 postLikeMutation>>

PostAnswers ==
  {Resolved([status |-> 200, data |-> [message |-> "success"]]),
   Rejected(HttpError(500)), Rejected(NetworkError)}

\* a card is on screen: with or without a token, a post id and the right
\* to manage the post
PostCardLoaded ==
  \E token \in BOOLEAN, postId \in {"", "p1"}, canManagePost \in BOOLEAN :
    postCard = [token |-> token, postId |-> postId, canManagePost |-> canManagePost,
                isPostMenuOpen |-> FALSE, isDeleteModalOpen |-> FALSE,
                isShareModalOpen |-> FALSE, isEditingPost |-> FALSE,
                errors |-> [kind \in PostKinds |-> ""], alert |-> "",
                requests |-> <<>>, lastEvent |-> "none"]

InitPost == InitCache /\ LikeIdle /\ FollowIdle /\ CallIdle /\ NotifIdle /\ PostCardLoaded

\* the menu button
TogglePostMenu ==
  /\ Handled("togglePostMenu", [postCard EXCEPT !.isPostMenuOpen = ~@])

\* a mouse press outside the menu
handleOutsideClick ==
  /\ postCard.isPostMenuOpen
  /\ Handled("handleOutsideClick", [postCard EXCEPT !.isPostMenuOpen = FALSE])

\* canManagePost changes with the post or the current user; the effect on
\* canManagePost closes the edit form and the delete modal when it is false
CanManagePostChanges ==
  /\ Handled("canManagePostChanges",
       IF postCard.canManagePost
         THEN [postCard EXCEPT !.canManagePost = FALSE, !.isEditingPost = FALSE,
                               !.isDeleteModalOpen = FALSE]
         ELSE [postCard EXCEPT !.canManagePost = TRUE])

handlePostLike ==
  /\ Len(postCard.requests) < MaxPostRequests
  /\ Handled("handlePostLike",
       IF ~postCard.token \/ postCard.postId = "" \/ postIsPending("like") THEN postCard
       ELSE mutate(postCard, "like"))

\* the bookmark entry of the open menu
handlePostBookmark ==
  /\ Len(postCard.requests) < MaxPostRequests
  /\ postCard.isPostMenuOpen
  /\ Handled("handlePostBookmark",
       IF ~postCard.token \/ postCard.postId = "" \/ postIsPending("bookmark") THEN postCard
       ELSE mutate([postCard EXCEPT !.isPostMenuOpen = FALSE], "bookmark"))

handlePostShare ==
  /\ Handled("handlePostShare",
       IF ~postCard.token
         THEN [postCard EXCEPT !.errors["share"] = "You need to login first."]
       ELSE IF postCard.postId = "" \/ postIsPending("share") THEN postCard
       ELSE [postCard EXCEPT !.errors["share"] = "", !.isShareModalOpen = TRUE])

handleCloseShareModal ==
  /\ postCard.isShareModalOpen
  /\ Handled("handleCloseShareModal",
       IF postIsPending("share") THEN postCard
       ELSE [postCard EXCEPT !.isShareModalOpen = FALSE])

\* the "Share now" button of the open share modal
handleConfirmSharePost ==
  /\ Len(postCard.requests) < MaxPostRequests
  /\ postCard.isShareModalOpen
  /\ Handled("handleConfirmSharePost",
       IF ~postCard.token
         THEN [postCard EXCEPT !.errors["share"] = "You need to login first."]
       ELSE IF postCard.postId = "" \/ postIsPending("share") THEN postCard
       ELSE mutate(postCard, "share"))

\* the edit entry of the open menu, shown when canManagePost
handleEditPostClick ==
  /\ postCard.isPostMenuOpen /\ postCard.canManagePost
  /\ Handled("handleEditPostClick",
       IF ~postCard.canManagePost THEN [postCard EXCEPT !.isPostMenuOpen = FALSE]
       ELSE [postCard EXCEPT !.errors["update"] = "", !.isEditingPost = TRUE,
                             !.isPostMenuOpen = FALSE])

handleCancelEdit ==
  /\ postCard.isEditingPost
  /\ Handled("handleCancelEdit",
       [postCard EXCEPT !.isEditingPost = FALSE, !.errors["update"] = ""])

\* submit of the edit form; parsed is the outcome of updatePostSchema.safeParse
handleUpdatePostSubmit ==
  /\ postCard.isEditingPost
  /\ Len(postCard.requests) < MaxPostRequests
  /\ \E parsed \in BOOLEAN :
       Handled("handleUpdatePostSubmit",
         IF ~postCard.canManagePost
           THEN [postCard EXCEPT !.errors["update"] = "You can only edit your own posts."]
         ELSE IF ~postCard.token
           THEN [postCard EXCEPT !.errors["update"] = "You need to login first."]
         ELSE IF postCard.postId = ""
           THEN [postCard EXCEPT !.errors["update"] = "Missing post id."]
         ELSE IF ~parsed
           THEN [postCard EXCEPT !.errors["update"] =
                   "Post cannot be empty. Add text or upload an image."]
         ELSE mutate(postCard, "update"))

\* the delete entry of the open menu, shown when canManagePost
handleDeletePostClick ==
  /\ postCard.isPostMenuOpen /\ postCard.canManagePost
  /\ Handled("handleDeletePostClick",
       IF ~postCard.canManagePost THEN [postCard EXCEPT !.isPostMenuOpen = FALSE]
       ELSE [postCard EXCEPT !.isDeleteModalOpen = TRUE, !.errors["delete"] = "",
                             !.isPostMenuOpen = FALSE])

\* the close button and the Cancel button of the delete modal
handleCloseDeleteModal ==
  /\ postCard.isDeleteModalOpen
  /\ Handled("handleCloseDeleteModal",
       IF postIsPending("delete") THEN postCard
       ELSE [postCard EXCEPT !.isDeleteModalOpen = FALSE, !.errors["delete"] = ""])

\* a confirm handler that does not look at the pending delete
handleConfirmDeletePost_noPendingCheck ==
  /\ postCard.isDeleteModalOpen
  /\ Len(postCard.requests) < MaxPostRequests
  /\ Handled("handleConfirmDeletePost",
       IF ~postCard.canManagePost
         THEN [postCard EXCEPT !.errors["delete"] = "You can only delete your own posts."]
       ELSE IF ~postCard.token
         THEN [postCard EXCEPT !.errors["delete"] = "You need to login first."]
       ELSE IF postCard.postId = ""
         THEN [postCard EXCEPT !.errors["delete"] = "Missing post id."]
       ELSE mutate(postCard, "delete"))

\* the "Delete post" button of the delete modal
handleConfirmDeletePost ==
  /\ Len(postCard.requests) < MaxPostRequests
  /\ postCard.isDeleteModalOpen
  /\ Handled("handleConfirmDeletePost",
       IF ~postCard.canManagePost
         THEN [postCard EXCEPT !.errors["delete"] = "You can only delete your own posts."]
       ELSE IF ~postCard.token
         THEN [postCard EXCEPT !.errors["delete"] = "You need to login first."]
       ELSE IF postCard.postId = ""
         THEN [postCard EXCEPT !.errors["delete"] = "Missing post id."]
       ELSE IF postIsPending("delete") THEN postCard
       ELSE mutate(postCard, "delete"))

\* the Escape key, anywhere in the document
handleEscape ==
  /\ Handled("handleEscape",
       IF postIsPending("share")
         THEN [postCard EXCEPT !.isPostMenuOpen = FALSE, !.isDeleteModalOpen = FALSE]
         ELSE [postCard EXCEPT !.isPostMenuOpen = FALSE, !.isDeleteModalOpen = FALSE,
                               !.isShareModalOpen = FALSE])

FallbackMessage(kind) ==
  CASE kind = "like" -> "Failed to update like."
    [] kind = "bookmark" -> "Failed to update bookmark."
    [] kind = "share" -> "Failed to share post."
    [] kind = "update" -> "Failed to update post."
    [] kind = "delete" -> "Failed to delete post."

\* onSuccess of the mutation of a kind, as far as the card state goes
postOnSuccess(card, kind) ==
  CASE kind = "share" ->
         [card EXCEPT !.alert = "Post shared successfully.", !.isShareModalOpen = FALSE]
    [] kind = "update" ->
         [card EXCEPT !.alert = "Post updated successfully.", !.isEditingPost = FALSE]
    [] kind = "delete" ->
         [card EXCEPT !.alert = "Post deleted successfully.", !.isDeleteModalOpen = FALSE,
                      !.isPostMenuOpen = FALSE]
    [] OTHER -> card

\* a request in flight is answered: onSuccess or onError of its mutation
PostRequestAnswer ==
  \E i \in 1..Len(postCard.requests), answer \in PostAnswers :
    /\ ~postCard.requests[i].settled
    /\ LET kind == postCard.requests[i].kind
           settled == [postCard EXCEPT !.requests[i].settled = TRUE]
       IN Handled("answer",
            IF answer.ok THEN postOnSuccess(settled, kind)
            ELSE [settled EXCEPT !.errors[kind] =
                    extractApiMessage(answer.error, FallbackMessage(kind))])

NextPost ==
  \/ TogglePostMenu
  \/ handleOutsideClick
  \/ CanManagePostChanges
  \/ handlePostLike
  \/ handlePostBookmark
  \/ handlePostShare
  \/ handleCloseShareModal
  \/ handleConfirmSharePost
  \/ handleEditPostClick
  \/ handleCancelEdit
  \/ handleUpdatePostSubmit
  \/ handleDeletePostClick
  \/ handleCloseDeleteModal
  \/ handleConfirmDeletePost
  \/ handleEscape
  \/ PostRequestAnswer

SpecPost == InitPost /\ [][NextPost]_vars

\* =================================================================
\* Properties of the comments / replies cache (specification Spec)
\* =================================================================
PC == postCommentsQueryKey

\* mutation i settles with `status` in this step
Became(i, status) ==
  /\ mutations[i].status = "pending"
  /\ mutations'[i].status = status

\* a mutation of `kind` starts in this step
JustStarted(kind) ==
  /\ Len(mutations') = Len(mutations) + 1
  /\ mutations'[Len(mutations')].kind = kind

\* the error string the handlers of mutation m write to
ErrorShown(m, submitError, replyError, actionError) ==
  CASE m.kind = "createComment" -> submitError
    [] m.kind = "createReply" -> replyError[m.commentId]
    [] OTHER -> actionError[m.commentId]

\* the first record with the id among all pages, Null when there is none
ReadById(data, listKey, id) ==
  LET items == allItems(data, listKey)
      hits == {j \in 1..Len(items) : getEntityId(items[j]) = id}
  IN IF hits = {} THEN Null
     ELSE items[CHOOSE j \in hits : \A k \in hits : j <= k]

\* how many records of all pages carry the id
CountById(data, listKey, id) ==
  Cardinality({j \in 1..Len(allItems(data, listKey)) :
                 getEntityId(allItems(data, listKey)[j]) = id})

WithoutId(items, id) == SelectSeq(items, LAMBDA item : getEntityId(item) # id)

\* every field of the page but `name` is the same in both
SameBut(pageA, pageB, names) ==
  /\ DOMAIN pageA \cup names = DOMAIN pageB \cup names
  /\ \A f \in DOMAIN pageA \ names : f \in DOMAIN pageB /\ pageA[f] = pageB[f]

C4_SnapshotRestoreIsNoOp ==
  \A key \in QueryKeys : restoreQuery(cache, key, getQueryData(cache, key)) = cache

\* a cache with a loaded comments list and a replies query without data,
\* after a rollback has run
C4_Witness ==
  /\ HasPages(cache[PC])
  /\ \E key \in QueryKeys : cache[key] = Undef
  /\ \E i \in 1..Len(mutations) : mutations[i].status = "error"

\* C5: totalCount is never negative, on any page of any cached list.
C5_TotalCountNeverNegative ==
  \A key \in QueryKeys :
    HasPages(cache[key]) =>
      \A p \in 1..Len(cache[key].pages) :
        NumField(cache[key].pages[p], "totalCount").t = "num" =>
          cache[key].pages[p].totalCount.v >= 0

\* a delete removed more records than the total counted: the floor applied
C5_Witness ==
  \E i \in 1..Len(mutations) :
    LET m == mutations[i]
    IN /\ m.kind = "deleteComment"
       /\ HasPages(m.started[PC])
       /\ CountById(m.started[PC], "comments", m.commentId)
            > JSNumber(NumField(m.started[PC].pages[1], "totalCount")).v
       /\ HasPages(cache[PC])
       /\ cache[PC].pages[1].totalCount = Num(0)

\* C6 (as claimed): prepend raises a known totalCount by exactly 1 and
\* leaves an unknown (null) totalCount unknown.
C6_PrependCountsKnownTotalOnly ==
  [][\A kind \in {"createComment", "createReply"} :
       JustStarted(kind) =>
         LET m == mutations'[Len(mutations')]
             key == IF kind = "createReply" THEN commentRepliesQueryKey(m.commentId) ELSE PC
             before == cache[key]
             after == cache'[key]
         IN HasPages(before) =>
              after.pages[1].totalCount =
                IF before.pages[1].totalCount.t = "num"
                  THEN Num(before.pages[1].totalCount.v + 1)
                  ELSE before.pages[1].totalCount]_vars

\* C7 (as claimed): remove drops the record with the id from whichever page
\* holds it, removes 0 or 1 record, lowers totalCount by that number and
\* changes nothing when no record has the id.
C7_RemoveDecrementsByRemoved ==
  [][JustStarted("deleteComment") =>
       LET m == mutations'[Len(mutations')]
           before == cache[PC]
           after == cache'[PC]
           removed == CountById(before, "comments", m.commentId)
       IN HasPages(before) =>
            /\ removed \in {0, 1}
            /\ allItems(after, "comments") = WithoutId(allItems(before, "comments"), m.commentId)
            /\ after.pages[1].totalCount =
                 IF before.pages[1].totalCount.t = "num"
                   THEN Num(before.pages[1].totalCount.v - removed)
                   ELSE before.pages[1].totalCount
            /\ removed = 0 => after = before]_vars

\* the replace call of a success handler: target id and record, from the
\* response body kept in the mutation; "" as target when none is made
ReplaceTarget(m, data) ==
  CASE m.kind = "createComment" ->
         IF extractCreatedEntityFromResponse(data, "comment") # Null
           THEN m.context.optimisticCommentId ELSE ""
    [] m.kind = "createReply" ->
         IF extractCreatedEntityFromResponse(data, "reply") # Null
           THEN m.context.optimisticReplyId ELSE ""
    [] m.kind = "updateComment" ->
         IF extractCreatedEntityFromResponse(data, "comment") # Null
              /\ CountById(cache[PC], "comments", m.commentId) > 0
           THEN m.commentId ELSE ""
    [] OTHER -> ""

ReplaceRecord(m, data) ==
  CASE m.kind = "createComment" ->
         mergeOptimisticWithServerEntity(m.context.optimisticComment,
                                         extractCreatedEntityFromResponse(data, "comment"))
    [] m.kind = "createReply" ->
         mergeOptimisticWithServerEntity(m.context.optimisticReply,
                                         extractCreatedEntityFromResponse(data, "reply"))
    [] OTHER -> extractCreatedEntityFromResponse(data, "comment") @@ commentProp(m.commentId)

ListKeyOf(m) == IF m.kind = "createReply" THEN "replies" ELSE "comments"

QueryKeyOf(m) == IF m.kind = "createReply" THEN commentRepliesQueryKey(m.commentId) ELSE PC

\* every position that held the id holds the record, all the rest is as before
ReplacedInPlace(before, after, listKey, id, record) ==
  /\ HasPages(after)
  /\ after.pageParams = before.pageParams
  /\ Len(after.pages) = Len(before.pages)
  /\ \A p \in 1..Len(before.pages) :
       /\ SameBut(before.pages[p], after.pages[p], {listKey})
       /\ HasList(before.pages[p], listKey) <=> HasList(after.pages[p], listKey)
       /\ HasList(before.pages[p], listKey) =>
            /\ Len(after.pages[p][listKey]) = Len(before.pages[p][listKey])
            /\ \A j \in 1..Len(before.pages[p][listKey]) :
                 after.pages[p][listKey][j] =
                   IF getEntityId(before.pages[p][listKey][j]) = id
                     THEN record ELSE before.pages[p][listKey][j]

\* C8 (as claimed): after replace(list, id, record) a read of that id gives
\* exactly the record, and no other record is altered or moved.
C8_ReadOfReplacedIdGivesRecord ==
  [][\A i \in 1..Len(mutations) :
       (Became(i, "success") /\ ReplaceTarget(mutations[i], mutations'[i].data) # "") =>
         LET m == mutations[i]
             id == ReplaceTarget(m, mutations'[i].data)
             record == ReplaceRecord(m, mutations'[i].data)
             before == cache[QueryKeyOf(m)]
             after == cache'[QueryKeyOf(m)]
         IN CountById(before, ListKeyOf(m), id) > 0 =>
              /\ ReadById(after, ListKeyOf(m), id) = record
              /\ ReplacedInPlace(before, after, ListKeyOf(m), id, record)]_vars

\* C8 (amended): after replace(list, id, record) every position that held
\* the id holds exactly the record and nothing else is altered or moved; a
\* read of that id gives the record when the record carries that id, and
\* finds no record when the record carries another (the server's) id.
C8_ReplaceInPlace ==
  [][\A i \in 1..Len(mutations) :
       (Became(i, "success") /\ ReplaceTarget(mutations[i], mutations'[i].data) # "") =>
         LET m == mutations[i]
             id == ReplaceTarget(m, mutations'[i].data)
             record == ReplaceRecord(m, mutations'[i].data)
             before == cache[QueryKeyOf(m)]
             after == cache'[QueryKeyOf(m)]
         IN CountById(before, ListKeyOf(m), id) > 0 =>
              /\ ReplacedInPlace(before, after, ListKeyOf(m), id, record)
              /\ ReadById(after, ListKeyOf(m), id) =
                   IF getEntityId(record) = id THEN record ELSE Null]_vars

\* a created comment was reconciled on the second page position of a list
\* that holds other records, under the id the server gave
C8_Witness ==
  \E i \in 1..Len(mutations) :
    LET m == mutations[i]
    IN /\ m.kind = "createComment" /\ m.status = "success"
       /\ ReplaceTarget(m, m.data) # ""
       /\ getEntityId(ReplaceRecord(m, m.data)) = NewServerId("comment", i)
       /\ ReadById(cache[PC], "comments", NewServerId("comment", i)) = ReplaceRecord(m, m.data)
       /\ ReadById(cache[PC], "comments", m.context.optimisticCommentId) = Null
       /\ Len(allComments) > 1

\* C9: prepend puts the new record at index 0 of the first page, keeps the
\* cached records in their order and the later pages as they are; without
\* cached pages it makes one page holding only the new record.
C9_PrependAtHeadOfFirstPage ==
  [][\A kind \in {"createComment", "createReply"} :
       JustStarted(kind) =>
         LET m == mutations'[Len(mutations')]
             key == IF kind = "createReply" THEN commentRepliesQueryKey(m.commentId) ELSE PC
             listKey == ListKeyOf(m)
             entity == IF kind = "createReply" THEN m.context.optimisticReply
                       ELSE m.context.optimisticComment
             before == cache[key]
             after == cache'[key]
         IN IF ~HasPages(before)
              THEN /\ Len(after.pages) = 1
                   /\ after.pages[1][listKey] = <<entity>>
              ELSE /\ Len(after.pages) = Len(before.pages)
                   /\ after.pages[1][listKey] = <<entity>> \o before.pages[1][listKey]
                   /\ SameBut(before.pages[1], after.pages[1], {listKey, "totalCount"})
                   /\ Tail(after.pages) = Tail(before.pages)
                   /\ after.pageParams = before.pageParams]_vars

\* an optimistic comment sits at the head of a two-page list whose records
\* follow it in their old order
C9_Witness ==
  \E i \in 1..Len(mutations) :
    LET m == mutations[i]
    IN /\ m.kind = "createComment" /\ m.status = "pending"
       /\ HasPages(m.started[PC]) /\ Len(m.started[PC].pages) = 2
       /\ Len(m.started[PC].pages[1].comments) > 0
       /\ HasPages(cache[PC])
       /\ allComments = <<m.context.optimisticComment>> \o allItems(m.started[PC], "comments")

\* C10: patch shallow-merges the fields into every record with the id and
\* changes no other record, page field or count; without such a record the
\* state is returned as it is.
PatchedInPlace(before, after, listKey, id, patch) ==
  /\ HasPages(after)
  /\ after.pageParams = before.pageParams
  /\ Len(after.pages) = Len(before.pages)
  /\ \A p \in 1..Len(before.pages) :
       /\ SameBut(before.pages[p], after.pages[p], {listKey})
       /\ Len(after.pages[p][listKey]) = Len(before.pages[p][listKey])
       /\ \A j \in 1..Len(before.pages[p][listKey]) :
            LET old == before.pages[p][listKey][j]
                new == after.pages[p][listKey][j]
            IN IF getEntityId(old) # id THEN new = old
               ELSE /\ DOMAIN new = DOMAIN old \cup DOMAIN patch
                    /\ \A f \in DOMAIN patch : new[f] = patch[f]
                    /\ \A f \in DOMAIN old \ DOMAIN patch : new[f] = old[f]

C10_PatchMergesOneRecord ==
  [][/\ JustStarted("updateComment") =>
          LET m == mutations'[Len(mutations')]
          IN HasPages(cache[PC]) =>
               PatchedInPlace(cache[PC], cache'[PC], "comments", m.commentId,
                              [content |-> m.content, body |-> m.content])
     /\ \A id \in CommentIds, content \in Contents :
          CountById(cache[PC], "comments", id) = 0 =>
            patchEntityInInfiniteQueryData(cache[PC], "comments", id,
                                           [content |-> content, body |-> content]) = cache[PC]
    ]_vars

\* an edit is pending on a comment of the second page; the first page and
\* the other records are the ones before the edit
C10_Witness ==
  \E i \in 1..Len(mutations) :
    LET m == mutations[i]
    IN /\ m.kind = "updateComment" /\ m.status = "pending"
       /\ HasPages(m.started[PC]) /\ Len(m.started[PC].pages) = 2
       /\ HasPages(cache[PC]) /\ Len(cache[PC].pages) = 2
       /\ cache[PC].pages[1] = m.started[PC].pages[1]
       /\ cache[PC].pages[2] # m.started[PC].pages[2]
       /\ StrField(ReadById(cache[PC], "comments", m.commentId), "body") = m.content

\* the record a create-comment mutation has in the list: the placeholder
\* while pending or when the response held no record, the reconciled
\* record otherwise
CreatedRecord(m) ==
  IF m.status = "success" /\ ReplaceTarget(m, m.data) # ""
    THEN ReplaceRecord(m, m.data)
    ELSE m.context.optimisticComment

\* the lists of records a page answered by the server can hold
ServerPageLists == {MapSeq(l, ServerComment) : l \in ListsOver(ServerOrder, MaxPageLen)}

\* the comments list was loaded once, then saw exactly two prepends (two
\* create-comment mutations, none rolled back) and one fetchNextPage
TwoPrependsOneNextPage ==
  /\ Len(mutations) = 2
  /\ \A i \in 1..2 : mutations[i].kind = "createComment" /\ mutations[i].status # "error"
  /\ HasPages(mutations[1].started[PC]) /\ Len(mutations[1].started[PC].pages) >= 1
  /\ fetches = 2
  /\ HasPages(cache[PC]) /\ Len(cache[PC].pages) = 2

\* C13: after two prepends and one fetchNextPage, in any order of the
\* three, the concatenation of all pages is: the later-prepended record,
\* the earlier-prepended record, the first page's original items in
\* order, then the second page's items in order.
C13_PrependsAndNextPageOrder ==
  TwoPrependsOneNextPage =>
    /\ allComments = <<CreatedRecord(mutations[2]), CreatedRecord(mutations[1])>>
                       \o mutations[1].started[PC].pages[1].comments
                       \o cache[PC].pages[2].comments
    /\ mutations[1].started[PC].pages[1].comments \in ServerPageLists
    /\ cache[PC].pages[2].comments \in ServerPageLists

\* the next page arrived between the two prepends; both fetched pages hold
\* records
C13_Witness ==
  /\ TwoPrependsOneNextPage
  /\ Len(mutations[1].started[PC].pages) = 1
  /\ Len(mutations[2].started[PC].pages) = 2
  /\ Len(mutations[1].started[PC].pages[1].comments) = 2
  /\ Len(cache[PC].pages[2].comments) > 0
  /\ Len(allComments) > 4

\* C21: overlapping mutations on the comments list are last-write-wins.
\* When a mutation fails, the comments list becomes the snapshot it took
\* when it started, whatever the other mutations did since: a comment that
\* a later create added (as placeholder or as the server's record) is
\* gone, a comment that a later delete removed is back, a comment that a
\* later edit patched reads as in the snapshot, and a placeholder that an
\* earlier create had already replaced by the server's record is back.
C21_RollbackOverwritesLaterChange ==
  [][\A i \in 1..Len(mutations) :
       Became(i, "error") =>
         LET snapshot == mutations[i].context.previousComments
         IN /\ cache'[PC] = snapshot
            /\ \A j \in 1..Len(mutations) :
                 LET other == mutations[j]
                 IN /\ (j > i /\ other.kind = "createComment") =>
                         /\ CountById(cache'[PC], "comments",
                                      other.context.optimisticCommentId) = 0
                         /\ CountById(cache'[PC], "comments", NewServerId("comment", j)) = 0
                    /\ (j > i /\ other.kind \in {"deleteComment", "updateComment"}) =>
                         /\ CountById(cache'[PC], "comments", other.commentId)
                              = CountById(snapshot, "comments", other.commentId)
                         /\ ReadById(cache'[PC], "comments", other.commentId)
                              = ReadById(snapshot, "comments", other.commentId)
                    /\ (j < i /\ other.kind = "createComment" /\ other.status = "success") =>
                         CountById(cache'[PC], "comments", other.context.optimisticCommentId)
                           = CountById(snapshot, "comments",
                                       other.context.optimisticCommentId)]_vars

\* a create reply captured a loaded comments list, a create comment
\* started later and was confirmed by the server, then the create reply
\* failed: the list is the snapshot and the confirmed comment is not in it
C21_Witness ==
  /\ Len(mutations) = 2
  /\ mutations[1].kind = "createReply" /\ mutations[1].status = "error"
  /\ mutations[2].kind = "createComment" /\ mutations[2].status = "success"
  /\ ReplaceTarget(mutations[2], mutations[2].data) # ""
  /\ HasPages(mutations[1].context.previousComments)
  /\ cache[PC] = mutations[1].context.previousComments
  /\ CountById(mutations[2].started[PC], "comments",
               mutations[2].context.optimisticCommentId) = 0
  /\ CountById(cache[PC], "comments", NewServerId("comment", 2)) = 0
  /\ CountById(cache[PC], "comments", mutations[2].context.optimisticCommentId) = 0

\* the list a query key caches
ListKeyOfQuery(key) == IF key = PC THEN "comments" ELSE "replies"

\* the id of the placeholder a create mutation made
PlaceholderId(m) ==
  IF m.kind = "createReply" THEN m.context.optimisticReplyId
  ELSE m.context.optimisticCommentId

\* C22 (as claimed): a cached comment or reply has isOptimistic = true
\* only while the create mutation that made it is pending: once that
\* mutation has succeeded no cached record of it is still marked
\* optimistic, and once it has failed its placeholder is in no cached list.
C22_OptimisticOnlyWhileUnsettled ==
  /\ \A key \in QueryKeys :
       \A k \in 1..Len(allItems(cache[key], ListKeyOfQuery(key))) :
         LET record == allItems(cache[key], ListKeyOfQuery(key))[k]
         IN BoolField(record, "isOptimistic") =>
              \E i \in 1..Len(mutations) :
                /\ mutations[i].kind \in {"createComment", "createReply"}
                /\ mutations[i].status = "pending"
                /\ PlaceholderId(mutations[i]) = getEntityId(record)
  /\ \A i \in 1..Len(mutations) :
       (mutations[i].kind \in {"createComment", "createReply"}
          /\ mutations[i].status = "error") =>
         CountById(cache[QueryKeyOf(mutations[i])], ListKeyOf(mutations[i]),
                   PlaceholderId(mutations[i])) = 0

\* the comment with one reply more, a missing repliesCount read as 0
WithOneReplyMore(comment) ==
  With(comment, "repliesCount",
       Num(getNumericCount(NumField(comment, "repliesCount")) + 1))

\* the comments with the id have one reply more, all the rest is as before
ReplyCountRaised(before, after, commentId) ==
  /\ HasPages(after)
  /\ after.pageParams = before.pageParams
  /\ Len(after.pages) = Len(before.pages)
  /\ \A p \in 1..Len(before.pages) :
       /\ SameBut(before.pages[p], after.pages[p], {"comments"})
       /\ HasList(before.pages[p], "comments") <=> HasList(after.pages[p], "comments")
       /\ HasList(before.pages[p], "comments") =>
            /\ Len(after.pages[p].comments) = Len(before.pages[p].comments)
            /\ \A j \in 1..Len(before.pages[p].comments) :
                 after.pages[p].comments[j] =
                   IF getEntityId(before.pages[p].comments[j]) = commentId
                     THEN WithOneReplyMore(before.pages[p].comments[j])
                     ELSE before.pages[p].comments[j]

\* no cached comment has a negative repliesCount
RepliesCountNeverNegative ==
  \A k \in 1..Len(allComments) :
    NumField(allComments[k], "repliesCount").t = "num" => allComments[k].repliesCount.v >= 0

\* C23: starting a create reply raises the repliesCount of the parent
\* comment by exactly 1 in the comments list (a missing count is read as
\* 0) and changes no other comment, and puts the reply at the head of the
\* replies list of that comment; no cached repliesCount is ever negative;
\* when the call fails, the comments list and the replies list are back at
\* the values they had when the mutation started.
C23_ReplyCountAndRollback ==
  [][/\ JustStarted("createReply") =>
          LET m == mutations'[Len(mutations')]
              repliesKey == commentRepliesQueryKey(m.commentId)
          IN /\ HasPages(cache[PC])
             /\ ReplyCountRaised(cache[PC], cache'[PC], m.commentId)
             /\ allItems(cache'[repliesKey], "replies")
                  = <<m.context.optimisticReply>> \o allItems(cache[repliesKey], "replies")
     /\ \A i \in 1..Len(mutations) :
          (Became(i, "error") /\ mutations[i].kind = "createReply") =>
            /\ cache'[PC] = mutations[i].started[PC]
            /\ cache'[commentRepliesQueryKey(mutations[i].commentId)]
                 = mutations[i].started[commentRepliesQueryKey(mutations[i].commentId)]
     /\ RepliesCountNeverNegative']_vars

\* a reply is being created on a comment that came without repliesCount,
\* next to a comment with one, over a loaded replies list: the parent now
\* counts 1 reply, the other comment is as it was
C23_Witness ==
  \E i \in 1..Len(mutations) :
    LET m == mutations[i]
        repliesKey == commentRepliesQueryKey(m.commentId)
    IN /\ m.kind = "createReply" /\ m.status = "pending"
       /\ HasPages(m.started[PC])
       /\ Len(allItems(m.started[PC], "comments")) = 2
       /\ "repliesCount" \notin DOMAIN ReadById(m.started[PC], "comments", m.commentId)
       /\ HasPages(m.started[repliesKey])
       /\ Len(allItems(m.started[repliesKey], "replies")) > 0
       /\ ReplyCountRaised(m.started[PC], cache[PC], m.commentId)
       /\ ReadById(cache[PC], "comments", m.commentId).repliesCount = Num(1)
       /\ Head(allItems(cache[repliesKey], "replies")) = m.context.optimisticReply

\* =================================================================
\* Properties of the like reconciliation (specification SpecLike)
\* =================================================================
\* the body carries no likesCount, no count and no likes array
NoCountField(responseData) ==
  /\ "likesCount" \notin DOMAIN responseData
  /\ "likes" \notin DOMAIN responseData
  /\ "data" \notin DOMAIN responseData
       \/ DOMAIN responseData.data \cap {"likesCount", "count", "likes"} = {}

PostUnliked == <<"P", "o", "s", "t", " ", "u", "n", "l", "i", "k", "e", "d">>

\* C2 (as claimed): without a count field in the response the count is
\* computed from the previous one: + 1 from not-liked to liked, - 1 floored
\* at zero from liked to not-liked; "Post unliked" on {isLiked: true,
\* count: 5} gives {isLiked: false, count: 4}.
C2_CountComputedLocally ==
  (likeResult # NoLikeResult /\ NoCountField(likeInput.responseData)
     /\ likeInput.currentCount.t = "num") =>
    /\ (~likeInput.currentLikeState /\ likeResult.isLiked) =>
         likeResult.count = Num(likeInput.currentCount.v + 1)
    /\ (likeInput.currentLikeState /\ ~likeResult.isLiked) =>
         likeResult.count = Num(Max(0, likeInput.currentCount.v - 1))
    /\ (likeInput.responseData = [message |-> PostUnliked]
          /\ likeInput.currentLikeState /\ likeInput.currentCount = Num(5)) =>
         likeResult = [isLiked |-> FALSE, count |-> Num(4)]

\* the explicit liked-state flag of a response: the first of
\* data.isLiked, isLiked, data.liked, liked that parses as boolean-like
LikeSignalOf(responseData) ==
  FirstParsed(<<Field(DataOf(responseData), "isLiked"), Field(responseData, "isLiked"),
                Field(DataOf(responseData), "liked"), Field(responseData, "liked")>>)

\* C14 (as claimed): when the response of a like toggle carries an explicit
\* boolean-like flag of the liked state, the reconciled isLiked equals that
\* flag, whatever the message and the previous state are.
C14_ExplicitLikeSignalWins ==
  (likeResult # NoLikeResult /\ LikeSignalOf(likeInput.responseData) # Null) =>
    likeResult.isLiked = LikeSignalOf(likeInput.responseData).v

\* the lower-cased message of the response looked at
LikeMessage == toLowerCase(MessageOf(likeInput.responseData))

\* C15 (as claimed): without an explicit flag, a message with "unlike" or
\* "removed" gives not-liked; otherwise a message with "like" gives liked;
\* with no keyword the result is the negation of the previous isLiked.
C15_MessageKeywordsDecide ==
  (likeResult # NoLikeResult /\ LikeSignalOf(likeInput.responseData) = Null) =>
    likeResult.isLiked =
      IF includes(LikeMessage, <<"u", "n", "l", "i", "k", "e">>) \/ includes(LikeMessage, <<"r", "e", "m", "o", "v", "e", "d">>) THEN FALSE
      ELSE IF includes(LikeMessage, <<"l", "i", "k", "e">>) THEN TRUE
      ELSE ~likeInput.currentLikeState

\* C15 (amended): without an explicit flag, a message with "unlike",
\* "removed" or "delete" gives not-liked; otherwise a message with "like"
\* gives liked; with none of the four the result is the negation of the
\* previous isLiked.
C15_MessageKeywordsWithDelete ==
  (likeResult # NoLikeResult /\ LikeSignalOf(likeInput.responseData) = Null) =>
    likeResult.isLiked =
      IF includes(LikeMessage, <<"u", "n", "l", "i", "k", "e">>) \/ includes(LikeMessage, <<"r", "e", "m", "o", "v", "e", "d">>)
           \/ includes(LikeMessage, <<"d", "e", "l", "e", "t", "e">>) THEN FALSE
      ELSE IF includes(LikeMessage, <<"l", "i", "k", "e">>) THEN TRUE
      ELSE ~likeInput.currentLikeState

\* "Comment deleted" answered a toggle of a record that was not liked: the
\* result is not-liked, not the flip
C15_Witness ==
  /\ likeResult # NoLikeResult
  /\ LikeSignalOf(likeInput.responseData) = Null
  /\ MessageOf(likeInput.responseData) = <<"C", "o", "m", "m", "e", "n", "t", " ", "d", "e", "l", "e", "t", "e", "d">>
  /\ ~likeInput.currentLikeState
  /\ ~likeResult.isLiked

\* =================================================================
\* Properties of the follow toggles (specification SpecFollow)
\* =================================================================
\* C3: a follow toggle that fails leaves the follow state shown for that
\* user exactly as it was shown before the toggle, in the users list and
\* on the profile page, and an error string is set.
C3_FailedFollowRestoresShownState ==
  [][\A i \in 1..Len(followMutations) :
       (followMutations[i].status = "pending" /\ followMutations'[i].status = "error") =>
         LET m == followMutations[i]
         IN IF m.surface = "search"
              THEN SearchShown(m.variables.userId)' = m.shown
              ELSE ProfileShown(m.variables.userId)' = m.shown]_vars

\* both surfaces have rolled a failed follow of a user with 10 followers
\* back from {true, 11} to {false, 10}
C3_Witness ==
  /\ \E i \in 1..Len(followMutations) :
       LET m == followMutations[i]
       IN /\ m.surface = "search" /\ m.status = "error"
          /\ m.shown = [isFollowing |-> FALSE, followersCount |-> 10]
          /\ m.variables.nextIsFollowing /\ m.variables.nextFollowersCount = 11
          /\ SearchShown(m.variables.userId) = [isFollowing |-> FALSE, followersCount |-> 10]
  /\ \E i \in 1..Len(followMutations) :
       LET m == followMutations[i]
       IN /\ m.surface = "profile" /\ m.status = "error"
          /\ m.shown = [isFollowing |-> FALSE, followersCount |-> 10]
          /\ m.variables.nextIsFollowing /\ m.variables.nextFollowersCount = 11
          /\ ProfileShown(m.variables.userId) = [isFollowing |-> FALSE, followersCount |-> 10]

\* =================================================================
\* Properties of the helper calls (specification SpecCalls)
\* =================================================================
ExtractedEntity == extractCreatedEntityFromResponse(call.responseData, call.entityType)

HasNoUsableId(entity) == StrField(entity, "_id") = "" /\ StrField(entity, "id") = ""

\* C11: a placeholder reconciled with a server record that has neither _id
\* nor id keeps the placeholder's id; with a server record that has an id,
\* _id and id of the reconciled record both carry a server id (the
\* record's own field, or its other id field when that one is missing).
C11_ReconciledIdentity ==
  (call.fn = "reconcileCreated" /\ result # NoResult /\ ExtractedEntity # Null) =>
    IF HasNoUsableId(ExtractedEntity)
      THEN /\ result.value._id = call.optimisticEntity._id
           /\ result.value.id = call.optimisticEntity.id
           /\ getEntityId(result.value) = getEntityId(call.optimisticEntity)
      ELSE /\ result.value._id = (IF StrField(ExtractedEntity, "_id") # ""
                              THEN ExtractedEntity._id ELSE ExtractedEntity.id)
           /\ result.value.id = (IF StrField(ExtractedEntity, "id") # ""
                             THEN ExtractedEntity.id ELSE ExtractedEntity._id)

\* a server record that carries only `id` was reconciled: its value is
\* now in _id and in id, and the record is no placeholder any more
C11_Witness ==
  /\ call.fn = "reconcileCreated" /\ result # NoResult /\ result.value # Null
  /\ "id" \in DOMAIN ExtractedEntity /\ "_id" \notin DOMAIN ExtractedEntity
  /\ result.value._id = "s2" /\ result.value.id = "s2"
  /\ ~result.value.isOptimistic

\* C12: with a numeric totalPages on the last page there is a next page
\* exactly when page < totalPages; otherwise exactly when the last page
\* holds as many items as the page limit (10).
C12_NextPageDecision ==
  (call.fn = "getNextPageParam" /\ result # NoResult) =>
    LET lastPage == call.lastPage
        items == IF call.listKey \in DOMAIN lastPage THEN lastPage[call.listKey] ELSE <<>>
    IN /\ hasNextPage(result.value) <=>
            IF NumField(lastPage, "totalPages").t = "num"
              THEN lastPage.page.v < lastPage.totalPages.v
              ELSE call.listKey \in DOMAIN lastPage /\ Len(items) = 10
       /\ hasNextPage(result.value) => result.value = lastPage.page.v + 1

\* a first page of exactly 10 comments without a total-page count: there
\* is a next page, page 2
C12_Witness ==
  /\ call.fn = "getNextPageParam" /\ call.listKey = "comments"
  /\ call.lastPage.page = Num(1) /\ NumField(call.lastPage, "totalPages") = Null
  /\ Len(call.lastPage.comments) = 10
  /\ result = Returned(2)

\* the lower-cased message of the bookmark answer looked at
BookmarkMessage == toLowerCase(MessageOf(call.responseData))

\* the message names an un-save / a save
SaysUnsaved ==
  includes(BookmarkMessage, <<"u", "n", "s", "a", "v", "e">>) \/ includes(BookmarkMessage, <<"u", "n", " ", "s", "a", "v", "e">>)
    \/ includes(BookmarkMessage, <<"u", "n", "b", "o", "o", "k", "m", "a", "r", "k">>)
    \/ includes(BookmarkMessage, <<"r", "e", "m", "o", "v", "e", " ", "b", "o", "o", "k", "m", "a", "r", "k">>)

SaysSaved ==
  includes(BookmarkMessage, <<"s", "a", "v", "e", "d">>) \/ includes(BookmarkMessage, <<"s", "a", "v", "e">>)
    \/ includes(BookmarkMessage, <<"b", "o", "o", "k", "m", "a", "r", "k", "e", "d">>) \/ includes(BookmarkMessage, <<"b", "o", "o", "k", "m", "a", "r", "k">>)

CarriesShareCount(responseData) ==
  \/ DOMAIN DataOf(responseData) \cap {"sharesCount", "count", "shares"} # {}
  \/ DOMAIN responseData \cap {"sharesCount", "shares"} # {}

\* C17 (as claimed): after a share the count is the one the response
\* carries; without a count field it is the previous count + 1, or the
\* previous count - 1 floored at zero when the message says unshare /
\* remove.
C17_ShareCountReconciled ==
  (call.fn = "getShareCountFromResponse" /\ result # NoResult) =>
    LET message == toLowerCase(MessageOf(call.responseData))
    IN IF CarriesShareCount(call.responseData)
         THEN result.value = ShareCountFromApi(call.responseData)
         ELSE IF includes(message, <<"u", "n", "s", "h", "a", "r", "e">>) \/ includes(message, <<"r", "e", "m", "o", "v", "e">>)
           THEN result.value = Num(Max(0, call.currentCount.v - 1))
         ELSE result.value = Num(call.currentCount.v + 1)

\* the five sources of the error string, in the claimed order
MessageSources(error, fallbackMessage) ==
  LET data == IF "response" \in DOMAIN error THEN error.response.data ELSE EmptyObject
  IN << IF "message" \in DOMAIN data THEN data.message ELSE "",
        IF "error" \in DOMAIN data THEN data.error ELSE "",
        IF "errors" \in DOMAIN data /\ Len(data.errors) > 0 /\ "msg" \in DOMAIN data.errors[1]
          THEN data.errors[1].msg ELSE "",
        IF "message" \in DOMAIN error THEN error.message ELSE "",
        fallbackMessage >>

\* C18: the error string of a failed remote call is the first non-empty
\* value of: the payload's message, the payload's error, the msg of the
\* first validation error, the transport error's message, the fallback.
C18_ApiMessagePrecedence ==
  (call.fn = "extractApiMessage" /\ result # NoResult) =>
    LET sources == MessageSources(call.error, call.fallbackMessage)
    IN \E k \in 1..Len(sources) :
         /\ sources[k] # ""
         /\ \A j \in 1..(k - 1) : sources[j] = ""
         /\ result.value = sources[k]

\* an error whose payload message is empty, whose payload error is missing
\* and whose first validation error has a msg, next to a transport message:
\* the validation msg is shown
C18_Witness ==
  /\ call.fn = "extractApiMessage" /\ result = Returned("first invalid")
  /\ "response" \in DOMAIN call.error
  /\ "message" \in DOMAIN call.error.response.data
  /\ "error" \notin DOMAIN call.error.response.data
  /\ "errors" \in DOMAIN call.error.response.data
  /\ Len(call.error.response.data.errors) = 2
  /\ StrField(call.error, "message") = "Network Error"

\* the body names no direction: no "unlike", "removed", "delete" or "like"
\* in its message
NoDirection(responseData) ==
  LET message == toLowerCase(MessageOf(responseData))
  IN /\ ~includes(message, <<"l", "i", "k", "e">>)
     /\ ~includes(message, <<"r", "e", "m", "o", "v", "e", "d">>)
     /\ ~includes(message, <<"d", "e", "l", "e", "t", "e">>)

\* the flip of a like state: isLiked negated, the count one up or one down
FlipOf(shown) ==
  [isLiked |-> ~shown.isLiked,
   count |-> Num(IF shown.isLiked THEN Max(0, shown.count.v - 1) ELSE shown.count.v + 1)]

\* C24 (as claimed): when the like toggle of a reply succeeds with a body
\* that names no direction and carries no count, the new like state of the
\* reply is the flip of the state shown for it before the toggle, also on
\* the first toggle of a reply the server reported as liked.
C24_ReplyLikeFlipsShownState ==
  (call.fn = "replyLikeOnSuccess" /\ result # NoResult
     /\ NoDirection(call.responseData) /\ NoCountField(call.responseData)) =>
    result.value = FlipOf(replyLikeState(call.entry, call.reply))

\* C25: with the total-page count unknown and one page cached, hasNextPage
\* follows the current length of that page: a prepend onto 10 comments turns it
\* from true to false, a prepend onto 9 comments from false to true, a remove
\* from 10 comments from true to false; with a numeric total-page count no
\* prepend and no remove changes hasNextPage.
C25_EditsChangeHasNextPage ==
  (call.fn = "hasNextPageAfterEdit" /\ result # NoResult) =>
    LET pages == call.oldData.pages
        n == Len(pages[1].comments)
        unknown == pages[Len(pages)].totalPages = Null
        onePage == Len(pages) = 1
        before == result.value.before
        after == result.value.after
    IN /\ (unknown /\ onePage /\ call.edit.op = "prepend" /\ n = COMMENTS_PAGE_LIMIT)
            => (before /\ ~after)
       /\ (unknown /\ onePage /\ call.edit.op = "prepend" /\ n = COMMENTS_PAGE_LIMIT - 1)
            => (~before /\ after)
       /\ (unknown /\ onePage /\ call.edit = [op |-> "remove", targetId |-> "p1-1"]
             /\ n = COMMENTS_PAGE_LIMIT)
            => (before /\ ~after)
       /\ ~unknown => (after = before)

C25_Witness ==
  /\ call.fn = "hasNextPageAfterEdit" /\ result # NoResult
  /\ Len(call.oldData.pages) = 1
  /\ call.oldData.pages[1].totalPages = Null
  /\ Len(call.oldData.pages[1].comments) = COMMENTS_PAGE_LIMIT
  /\ call.edit.op = "prepend"
  /\ result.value = [before |-> TRUE, after |-> FALSE]

\* the fixed order of the requests of markNotificationRead
FixedOrder(notificationId) ==
  <<[method |-> "PUT", url |-> <<"notifications", notificationId, "read">>],
    [method |-> "PATCH", url |-> <<"notifications", notificationId, "read">>],
    [method |-> "PUT", url |-> <<"notifications", "read">>],
    [method |-> "PATCH", url |-> <<"notifications", "read">>]>>

\* the answer lets the loop go on: a 405 or a failure without a status
GoesOn(answer) == ~answer.ok /\ ErrorStatus(answer.error) \in {0, 405}

\* C28: markNotificationRead sends at most 4 requests in the order PUT
\* /{id}/read, PATCH /{id}/read, PUT /read, PATCH /read; it returns the first
\* successful response, returns a success value at the first 404, throws the
\* error of the first response with another status than 404 and 405, goes on
\* after a 405 or a failure without a status, and throws the last error when
\* all four attempts are used; without a notification id it throws and
\* sends nothing.
C28_MarkReadAttempts ==
  (call.fn = "markNotificationRead" /\ result # NoResult) =>
    LET requests == result.value.requests
        outcome == result.value.outcome
        sent == Len(requests)
        answers == call.answers
    IN IF call.notificationId = ""
         THEN requests = <<>> /\ outcome.t = "throw"
         ELSE /\ sent \in 1..4
              /\ \A k \in 1..sent :
                   /\ requests[k].method = FixedOrder(call.notificationId)[k].method
                   /\ requests[k].url = FixedOrder(call.notificationId)[k].url
              /\ \A k \in 1..(sent - 1) : GoesOn(answers[k])
              /\ ~GoesOn(answers[sent]) \/ sent = 4
              /\ answers[sent].ok =>
                   outcome = [t |-> "return", value |-> answers[sent].response]
              /\ (~answers[sent].ok /\ ErrorStatus(answers[sent].error) = 404) =>
                   (outcome.t = "return" /\ outcome.value.data.success)
              /\ (~answers[sent].ok /\ ErrorStatus(answers[sent].error) # 404) =>
                   outcome = [t |-> "throw", error |-> answers[sent].error]

\* all four requests were sent, the first three answered by a 405 or
\* without a status, and the call threw the error of the fourth
C28_Witness ==
  /\ call.fn = "markNotificationRead" /\ result # NoResult
  /\ call.notificationId # ""
  /\ Len(result.value.requests) = 4
  /\ ~call.answers[1].ok /\ ErrorStatus(call.answers[1].error) = 405
  /\ ~call.answers[2].ok /\ ErrorStatus(call.answers[2].error) = 0
  /\ ~call.answers[4].ok
  /\ result.value.outcome.t = "throw"
  /\ result.value.outcome.error = call.answers[4].error

\* =================================================================
\* Properties of the notifications page and of the like toggle of a post
\* card (specification SpecNotif)
\* =================================================================
\* C19: a failed remote call of a mutation is never sent again by the
\* program itself: a request of an action goes out only when the user
\* triggers the action, which starts a new mutation, so no step raises the
\* number of requests sent for a mutation that was already started.
C19_NoAutomaticReissue ==
  [][\A i \in 1..Len(notifMutations) :
       notifMutations'[i].attempt = notifMutations[i].attempt]_vars

\* mutation number i was pending and this step brought it a 404
AnsweredNotFound(i) ==
  /\ notifMutations[i].status = "pending"
  /\ notifMutations'[i] # notifMutations[i]
  /\ ErrorStatus(notifMutations'[i].lastError) = 404

\* the like request of the post card was pending and this step brought it
\* a 404
LikeAnsweredNotFound ==
  /\ postLikeMutation.status = "pending"
  /\ postLikeMutation'.status # "pending"
  /\ postLikeMutation'.responseStatus = 404

\* C20: a 404 answered to mark-as-read or to mark-all-as-read settles the
\* mutation as a success and leaves the cache as it is, so the rollback
\* does not run and the optimistic read state stays; a 404 answered to the
\* like toggle of a post settles that mutation as an error, with an error
\* string shown and the like state untouched.
C20_NotFoundIsBenign ==
  [][/\ \A i \in 1..Len(notifMutations) :
          AnsweredNotFound(i) =>
            /\ notifMutations'[i].status = "success"
            /\ notifMutations'[i].error = Null
            /\ notifCache' = notifCache
     /\ LikeAnsweredNotFound =>
          /\ postLikeMutation'.status = "error"
          /\ postLikeError' # ""
          /\ postLikeState' = postLikeState]_vars

\* a mark-as-read mutation settled as a success by a 404 while the cache
\* still differs from the snapshot a rollback would restore, and a like
\* toggle settled as an error by a 404
C20_Witness ==
  /\ \E i \in 1..Len(notifMutations) :
       /\ notifMutations[i].status = "success"
       /\ ErrorStatus(notifMutations[i].lastError) = 404
       /\ notifMutations[i].data = [data |-> [success |-> TRUE,
                                               message |-> NotFoundMessageOf(notifMutations[i])]]
       /\ notifCache # rollbackNotifications(notifCache, notifMutations[i].context)
       /\ notifCache = IF notifMutations[i].kind = "markOne"
                         THEN markOneOptimistic(notifCache, notifMutations[i].variables)
                         ELSE markAllOptimistic(notifCache)
  /\ postLikeMutation.status = "error"
  /\ postLikeMutation.responseStatus = 404

\* the mutation started by this step, if the step starts one
StartedMutation == notifMutations'[Len(notifMutations')]
StartsMutation(kind) ==
  /\ Len(notifMutations') = Len(notifMutations) + 1
  /\ StartedMutation.kind = kind

\* the cached unread count, a missing one read as 0
CachedUnreadCount(c) ==
  IF c[unreadCountQueryKey] = Undef THEN 0 ELSE c[unreadCountQueryKey].v

\* no list of the unread filter holds a read notification
NoReadInUnreadLists ==
  IsArray(notifCache[notificationsQueryKey(TRUE)]) =>
    \A i \in 1..Len(notifCache[notificationsQueryKey(TRUE)].v) :
      ~notifCache[notificationsQueryKey(TRUE)].v[i].isRead

MarkOneStepIsOptimistic ==
  StartsMutation("markOne") =>
    LET n == StartedMutation.variables
        unreadBefore == notifCache[notificationsQueryKey(TRUE)]
        unreadAfter == notifCache'[notificationsQueryKey(TRUE)]
        allBefore == notifCache[notificationsQueryKey(FALSE)]
        allAfter == notifCache'[notificationsQueryKey(FALSE)]
    IN /\ IF IsArray(unreadBefore)
            THEN /\ IsArray(unreadAfter)
                 /\ unreadAfter.v = SelectSeq(unreadBefore.v, LAMBDA item : item.id # n)
            ELSE unreadAfter = unreadBefore
       /\ IF IsArray(allBefore)
            THEN /\ IsArray(allAfter)
                 /\ Len(allAfter.v) = Len(allBefore.v)
                 /\ \A i \in 1..Len(allBefore.v) :
                      /\ allAfter.v[i].id = allBefore.v[i].id
                      /\ allAfter.v[i].isRead = (allBefore.v[i].isRead \/ allBefore.v[i].id = n)
            ELSE allAfter = allBefore
       /\ notifCache'[unreadCountQueryKey] = Num(Max(0, CachedUnreadCount(notifCache) - 1))

MarkAllStepIsOptimistic ==
  StartsMutation("markAll") =>
    LET unreadBefore == notifCache[notificationsQueryKey(TRUE)]
        unreadAfter == notifCache'[notificationsQueryKey(TRUE)]
        allBefore == notifCache[notificationsQueryKey(FALSE)]
        allAfter == notifCache'[notificationsQueryKey(FALSE)]
    IN /\ IF IsArray(unreadBefore) THEN unreadAfter = List(<<>>)
                                   ELSE unreadAfter = unreadBefore
       /\ IF IsArray(allBefore)
            THEN /\ IsArray(allAfter)
                 /\ Len(allAfter.v) = Len(allBefore.v)
                 /\ \A i \in 1..Len(allBefore.v) :
                      /\ allAfter.v[i].id = allBefore.v[i].id
                      /\ allAfter.v[i].isRead
            ELSE allAfter = allBefore
       /\ notifCache'[unreadCountQueryKey] = Num(0)

\* C26: the optimistic step of mark-as-read removes the notification from
\* every cached list of the unread filter (the others kept in order), sets
\* isRead on it and on nothing else in every other cached list, and lowers
\* the unread count by 1 but not below 0; mark-all-as-read empties the
\* unread-filter lists, sets isRead on every item of the other lists and
\* sets the count to 0; and no unread-filter list ever holds a read
\* notification.
C26_OptimisticMarkRead ==
  /\ [][MarkOneStepIsOptimistic /\ MarkAllStepIsOptimistic]_vars
  /\ []NoReadInUnreadLists

\* mark-as-read has just removed a notification from a cached unread-filter
\* list of two, marked it in the list of all and lowered the count from 2 to 1
C26_Witness ==
  /\ Len(notifMutations) = 1
  /\ notifMutations[1].kind = "markOne" /\ notifMutations[1].status = "pending"
  /\ notifMutations[1].attempt = 1
  /\ IsArray(notifMutations[1].context.previousNotificationQueries[notificationsQueryKey(TRUE)])
  /\ Len(notifMutations[1].context.previousNotificationQueries[notificationsQueryKey(TRUE)].v) = 2
  /\ IsArray(notifCache[notificationsQueryKey(TRUE)])
  /\ Len(notifCache[notificationsQueryKey(TRUE)].v) = 1
  /\ IsArray(notifCache[notificationsQueryKey(FALSE)])
  /\ \E i \in 1..Len(notifCache[notificationsQueryKey(FALSE)].v) :
       /\ notifCache[notificationsQueryKey(FALSE)].v[i].id = notifMutations[1].variables
       /\ notifCache[notificationsQueryKey(FALSE)].v[i].isRead
  /\ notifMutations[1].context.previousUnreadCount = Num(2)
  /\ notifCache[unreadCountQueryKey] = Num(1)
  /\ notifFetches = 0

\* the mutation that fails in this step, if one does
FailsMutation(i) ==
  /\ i \in 1..Len(notifMutations)
  /\ Len(notifMutations') = Len(notifMutations)
  /\ notifMutations[i].status = "pending"
  /\ notifMutations'[i].status = "error"

\* C27: when mark-as-read or mark-all-as-read fails, every cached
\* notification list and the unread count are again what the mutation
\* captured when it started, also when no unread count was cached then.
C27_FailureRestoresSnapshot ==
  [][\A i \in 1..Len(notifMutations) :
       FailsMutation(i) =>
         /\ \A key \in NotificationQueryKeys :
              IsArray(notifMutations[i].context.previousNotificationQueries[key]) =>
                notifCache'[key] = notifMutations[i].context.previousNotificationQueries[key]
         /\ notifCache'[unreadCountQueryKey] = notifMutations[i].context.previousUnreadCount]_vars

\* ---------------------------------------------------------------------
\* Properties of the post card (specification SpecPost)
\* ---------------------------------------------------------------------
\* this step sends a request of the kind
SendsRequest(kind) ==
  /\ Len(postCard'.requests) = Len(postCard.requests) + 1
  /\ postCard'.requests[Len(postCard'.requests)].kind = kind

\* the current user may manage the post, a token is present, the id known
MayManage == postCard.canManagePost /\ postCard.token /\ postCard.postId # ""

\* this step is a run of the handler
Runs(name) == postCard' # postCard /\ postCard'.lastEvent = name

OneInFlightPerKind ==
  \A kind \in {"delete", "like", "bookmark", "share"} : Cardinality(InFlight(kind)) <= 1

\* C29: an update or delete request is sent only when the current user may
\* manage the post, a token is present and the post id is known; when one of
\* the three is missing the submit and confirm handlers set an error string
\* and send nothing; and one card never has two delete, two like, two
\* bookmark or two share requests in flight.
C29_ManageRequestsAreGuarded ==
  /\ [][/\ (SendsRequest("update") \/ SendsRequest("delete")) => MayManage
        /\ (Runs("handleUpdatePostSubmit") /\ ~MayManage) =>
             (postCard'.errors["update"] # "" /\ postCard'.requests = postCard.requests)
        /\ (Runs("handleConfirmDeletePost") /\ ~MayManage) =>
             (postCard'.errors["delete"] # "" /\ postCard'.requests = postCard.requests)]_vars
  /\ []OneInFlightPerKind

\* a second delete was confirmed after the first one failed, while an
\* update request is in flight
C29_Witness ==
  /\ postCard.lastEvent = "handleConfirmDeletePost"
  /\ MayManage
  /\ Len(postCard.requests) = 3
  /\ postCard.requests[1] = [kind |-> "update", settled |-> FALSE]
  /\ postCard.requests[2] = [kind |-> "delete", settled |-> TRUE]
  /\ postCard.requests[3] = [kind |-> "delete", settled |-> FALSE]
  /\ postCard.isDeleteModalOpen

\* C30: while a delete request is pending the delete modal stays open: no
\* close button, Cancel or Escape closes it before the request settles.
C30_PendingDeleteKeepsModalOpen ==
  [][(/\ postIsPending("delete") /\ postCard.isDeleteModalOpen
      /\ postCard'.lastEvent \in {"handleCloseDeleteModal", "handleEscape"})
       => postCard'.isDeleteModalOpen]_vars

====
